---------------------------- MODULE Spec2Model ----------------------------
(***************************************************************************)
(* Model of the 440Hz -> 432Hz batch converter (src/main.py): the batch    *)
(* driver (_ConverterGUI._worker), the conversion engine (convert_to_432)  *)
(* with its retry ladder, the file-swap protocol                           *)
(* (_replace_original_with_backup) and the controller's event loop         *)
(* (_poll and the callbacks posted with root.after).                       *)
(*                                                                         *)
(* File names are sequences of tokens [k, n]: k is the text of the token,  *)
(* n a number that is part of the text (".bak" with n = 2 is ".bak2").     *)
(* The external transcoder is a black box: each invocation exits 0 or      *)
(* non-zero with some diagnostic text, chosen nondeterministically.        *)
(***************************************************************************)
EXTENDS Integers, Sequences, FiniteSets, TLC

\* ------------------------------------------------------------------ bounds
\* Longest batch the driver is run on.
MaxFiles == 3

\* Longest batch the driver is run on with the main loop interleaved.
MaxGuiFiles == 2

\* ------------------------------------------------------------ name tokens
T(s) == [k |-> s, n |-> 0]
\* "<n>k", a bitrate option value such as 320k
K(n) == [k |-> "k", n |-> n]
\* ".bak" (i = 0) or ".bak<i>"
BakTok(i) == [k |-> ".bak", n |-> i]
\* "<n>", a string of digits
D(n) == [k |-> "#", n |-> n]

\* None of Optional[int]
NoneInt == -1

\* _unique_backup_path tries .bak and then .bak1 .. .bak999
BackupLimit == 1000

\* _clean_ffmpeg_err keeps the last 15 meaningful lines
TailLines == 15

\* target_sample_rate of the worker
TargetSampleRate == 48000

\* sample rate assumed when the probe gave none
DefaultSampleRate == 44100

TMP_MARK == ".__tmp432__"
OUT_SUFFIX == "_432"

OUTPUT_EXTS == {".mp3", ".m4a", ".aac", ".flac", ".wav", ".wma", ".ogg", ".opus"}

VIDEO_CONTAINER_EXTS ==
    {".mkv", ".mp4", ".m4v", ".mov", ".webm", ".avi", ".ts", ".m2ts", ".mts",
     ".mpg", ".mpeg", ".mpe", ".m2v", ".vob", ".wmv", ".asf", ".flv", ".f4v",
     ".3gp", ".3g2", ".ogv"}

\* the extensions of the subtitle fallback (convert_to_432)
MP4_FAMILY == {".mp4", ".m4v", ".mov"}

\* the containers an attached picture is copied into (convert_to_432)
COVER_ART_EXTS == {".mp3", ".m4a", ".flac"}

\* the extensions find_audio_files passes over without probing
IGNORE_EXTS ==
    {".jpg", ".jpeg", ".png", ".gif", ".bmp", ".webp", ".tif", ".tiff",
     ".txt", ".md", ".pdf", ".doc", ".docx", ".ppt", ".pptx", ".xls", ".xlsx", ".csv",
     ".json", ".xml", ".html", ".htm", ".css", ".js", ".py", ".ini", ".log",
     ".zip", ".rar", ".7z", ".tar", ".gz", ".bz2", ".xz", ".iso",
     ".exe", ".dll",
     ".bak"}

\* Token texts that begin with a dot, in lower case: pathlib takes the last
\* such token of a name as the suffix.
DotKinds ==
    OUTPUT_EXTS \cup VIDEO_CONTAINER_EXTS \cup IGNORE_EXTS \cup {".bak", TMP_MARK, ".dat"}

\* the text of a suffix ("" when there is none); ".bak<i>" stands for the
\* text of every numbered backup suffix .bak1, .bak2, ...
ExtText(sfx) ==
    IF sfx = <<>> THEN ""
    ELSE IF sfx[1].k = ".bak" /\ sfx[1].n > 0 THEN ".bak<i>"
    ELSE sfx[1].k

\* The texts written with capital letters, and their lower-case form.
LowerOf ==
    (".MP3" :> ".mp3") @@ (".Mp3" :> ".mp3") @@ (".M4A" :> ".m4a") @@ (".AAC" :> ".aac") @@
    (".FLAC" :> ".flac") @@ (".Flac" :> ".flac") @@ (".WAV" :> ".wav") @@
    (".WMA" :> ".wma") @@ (".OGG" :> ".ogg") @@ (".OPUS" :> ".opus") @@
    (".MKV" :> ".mkv") @@ (".MP4" :> ".mp4") @@ (".M4V" :> ".m4v") @@ (".MOV" :> ".mov") @@
    (".WEBM" :> ".webm") @@ (".AVI" :> ".avi") @@ (".TS" :> ".ts") @@ (".M2TS" :> ".m2ts") @@
    (".MTS" :> ".mts") @@ (".MPG" :> ".mpg") @@ (".MPEG" :> ".mpeg") @@ (".WMV" :> ".wmv") @@
    (".JPG" :> ".jpg") @@ (".TXT" :> ".txt") @@ (".BAK" :> ".bak") @@ (".DAT" :> ".dat") @@
    ("_432Hz" :> "_432hz") @@ ("_432HZ" :> "_432hz") @@ ("_432_Hz" :> "_432_hz") @@
    ("B" :> "b") @@ ("Out" :> "out")

\* str.lower()
Lower(s) == IF s \in DOMAIN LowerOf THEN LowerOf[s] ELSE s

\* Path.suffix as a sequence of zero or one token
Suffix(name) ==
    IF Len(name) > 1 /\ Lower(name[Len(name)].k) \in DotKinds
    THEN <<name[Len(name)]>> ELSE <<>>

\* Path.stem
Stem(name) == SubSeq(name, 1, Len(name) - Len(Suffix(name)))

\* Path.with_name
WithName(p, name) == [dir |-> p.dir, name |-> name]

------------------------------------------------------------------------------
\* ----------------------------------------------------------- codec policy

HQ_CODEC ==
    (".mp3" :> <<T("-c:a"), T("libmp3lame"), T("-b:a"), K(320), T("-compression_level"), T("0")>>) @@
    (".m4a" :> <<T("-c:a"), T("aac"), T("-b:a"), K(512), T("-movflags"), T("+faststart")>>) @@
    (".aac" :> <<T("-c:a"), T("aac"), T("-b:a"), K(512)>>) @@
    (".flac" :> <<T("-c:a"), T("flac"), T("-compression_level"), T("8")>>) @@
    (".wav" :> <<T("-c:a"), T("pcm_s24le")>>) @@
    (".wma" :> <<T("-c:a"), T("wmapro"), T("-b:a"), K(320)>>) @@
    (".ogg" :> <<T("-c:a"), T("libvorbis"), T("-q:a"), T("6")>>) @@
    (".opus" :> <<T("-c:a"), T("libopus"), T("-b:a"), K(192)>>) @@
    (".mkv" :> <<T("-c:a"), T("flac"), T("-compression_level"), T("8")>>) @@
    (".mp4" :> <<T("-c:a"), T("aac"), T("-b:a"), K(320), T("-movflags"), T("+faststart")>>) @@
    (".m4v" :> <<T("-c:a"), T("aac"), T("-b:a"), K(320), T("-movflags"), T("+faststart")>>) @@
    (".mov" :> <<T("-c:a"), T("aac"), T("-b:a"), K(320), T("-movflags"), T("+faststart")>>) @@
    (".webm" :> <<T("-c:a"), T("libopus"), T("-b:a"), K(192)>>) @@
    (".avi" :> <<T("-c:a"), T("aac"), T("-b:a"), K(320)>>) @@
    (".ts" :> <<T("-c:a"), T("aac"), T("-b:a"), K(320)>>) @@
    (".m2ts" :> <<T("-c:a"), T("aac"), T("-b:a"), K(320)>>) @@
    (".mts" :> <<T("-c:a"), T("aac"), T("-b:a"), K(320)>>) @@
    (".mpg" :> <<T("-c:a"), T("aac"), T("-b:a"), K(320)>>) @@
    (".mpeg" :> <<T("-c:a"), T("aac"), T("-b:a"), K(320)>>) @@
    (".wmv" :> <<T("-c:a"), T("aac"), T("-b:a"), K(320)>>)

SAFE_CODEC ==
    (".mp3" :> <<T("-c:a"), T("libmp3lame"), T("-b:a"), K(320)>>) @@
    (".m4a" :> <<T("-c:a"), T("aac"), T("-b:a"), K(256), T("-movflags"), T("+faststart")>>) @@
    (".aac" :> <<T("-c:a"), T("aac"), T("-b:a"), K(256)>>) @@
    (".flac" :> <<T("-c:a"), T("flac")>>) @@
    (".wav" :> <<T("-c:a"), T("pcm_s16le")>>) @@
    (".wma" :> <<T("-c:a"), T("wmav2"), T("-b:a"), K(192)>>) @@
    (".ogg" :> <<T("-c:a"), T("libvorbis"), T("-q:a"), T("4")>>) @@
    (".opus" :> <<T("-c:a"), T("libopus"), T("-b:a"), K(128)>>) @@
    (".mkv" :> <<T("-c:a"), T("flac")>>) @@
    (".mp4" :> <<T("-c:a"), T("aac"), T("-b:a"), K(256), T("-movflags"), T("+faststart")>>) @@
    (".m4v" :> <<T("-c:a"), T("aac"), T("-b:a"), K(256), T("-movflags"), T("+faststart")>>) @@
    (".mov" :> <<T("-c:a"), T("aac"), T("-b:a"), K(256), T("-movflags"), T("+faststart")>>) @@
    (".webm" :> <<T("-c:a"), T("libopus"), T("-b:a"), K(128)>>) @@
    (".avi" :> <<T("-c:a"), T("aac"), T("-b:a"), K(256)>>) @@
    (".ts" :> <<T("-c:a"), T("aac"), T("-b:a"), K(256)>>) @@
    (".m2ts" :> <<T("-c:a"), T("aac"), T("-b:a"), K(256)>>) @@
    (".mts" :> <<T("-c:a"), T("aac"), T("-b:a"), K(256)>>) @@
    (".mpg" :> <<T("-c:a"), T("aac"), T("-b:a"), K(256)>>) @@
    (".mpeg" :> <<T("-c:a"), T("aac"), T("-b:a"), K(256)>>) @@
    (".wmv" :> <<T("-c:a"), T("aac"), T("-b:a"), K(256)>>)

\* dict.get(ext, default)
DictGet(d, key, default) == IF key \in DOMAIN d THEN d[key] ELSE default

\* faulty variant: the extension is looked up as written
_codec_for_ext_as_written(ext0, safe) ==
    DictGet(IF safe THEN SAFE_CODEC ELSE HQ_CODEC, ext0, <<T("-c:a"), T("aac"), T("-b:a"), K(320)>>)

_codec_for_ext(ext0, safe) ==
    LET ext == Lower(ext0)
        default_codec ==
            IF ext \in {".flac", ".wav"}
            THEN DictGet(SAFE_CODEC, ext, <<T("-c:a"), T("copy")>>)
            ELSE <<T("-c:a"), T("aac"), T("-b:a"), K(320)>>
    IN  DictGet(IF safe THEN SAFE_CODEC ELSE HQ_CODEC, ext, default_codec)

\* list.index("-b:a"): the first position, 0 when absent (ValueError)
IndexOfBA(opts) ==
    IF \E i \in 1..Len(opts) : opts[i] = T("-b:a")
    THEN CHOOSE i \in 1..Len(opts) :
            opts[i] = T("-b:a") /\ \A j \in 1..(i - 1) : opts[j] # T("-b:a")
    ELSE 0

\* target_bps of a "-b:a" value: "<n>k" or digits, -1 for anything else
TargetBps(tok) ==
    IF tok.k = "k" THEN tok.n * 1000 ELSE IF tok.k = "#" THEN tok.n ELSE -1

\* faulty variant: the target is set to the original bit rate whenever they differ
_adjust_bitrate_in_options_both_ways(codec_options, orig_bps) ==
    LET i == IndexOfBA(codec_options)
    IN  IF orig_bps = NoneInt \/ i = 0 \/ i + 1 > Len(codec_options)
        THEN codec_options
        ELSE IF TargetBps(codec_options[i + 1]) \notin {-1, orig_bps}
        THEN [codec_options EXCEPT ![i + 1] = K(orig_bps \div 1000)]
        ELSE codec_options

_adjust_bitrate_in_options(codec_options, orig_bps) ==
    LET i == IndexOfBA(codec_options)
    IN  IF orig_bps = NoneInt \/ i = 0 \/ i + 1 > Len(codec_options)
        THEN codec_options
        ELSE LET target_bps == TargetBps(codec_options[i + 1])
             IN  IF target_bps # -1 /\ orig_bps < target_bps
                 THEN [codec_options EXCEPT ![i + 1] = K(orig_bps \div 1000)]
                 ELSE codec_options

\* faulty variant: without the .wma rule
_choose_output_ext_keeps_wma(input_ext, has_real_video) ==
    LET in_ext == Lower(input_ext)
    IN  IF has_real_video THEN (IF in_ext = "" THEN ".mp4" ELSE in_ext)
        ELSE IF in_ext \in OUTPUT_EXTS THEN in_ext
        ELSE ".mp3"

_choose_output_ext(input_ext, has_real_video) ==
    LET in_ext == Lower(input_ext)
    IN  IF has_real_video THEN (IF in_ext = "" THEN ".mp4" ELSE in_ext)
        ELSE IF in_ext = ".wma" THEN ".mp3"
        ELSE IF in_ext \in OUTPUT_EXTS THEN in_ext
        ELSE ".mp3"


------------------------------------------------------------------------------
\* ------------------------------------------------- transcoder command lines

Toks(strs) == [i \in DOMAIN strs |-> T(strs[i])]

\* base_cmd_list of convert_to_432: "SRC" stands for str(src), "CHAIN" for
\* the filter chain
BaseCmd(ext, has_real_video, has_attached_pic) ==
    IF has_real_video /\ ext \in VIDEO_CONTAINER_EXTS
    THEN LET map_args ==
                 IF ext = ".mkv"
                 THEN <<"-map", "0", "-map_metadata", "0", "-map_chapters", "0", "-copy_unknown">>
                 ELSE <<"-map", "0:v?", "-map", "0:a?", "-map", "0:s?", "-map", "0:d?",
                        "-map_metadata", "0", "-map_chapters", "0">>
             stream_copy_args ==
                 IF ext = ".mkv"
                 THEN <<"-c", "copy">>
                 ELSE <<"-c:v", "copy", "-c:s", "copy", "-c:d", "copy">>
         IN  Toks(<<"ffmpeg", "-y", "-i", "SRC">> \o map_args \o stream_copy_args
                  \o <<"-filter:a", "CHAIN">>)
    ELSE LET map_args ==
                 <<"-map", "0:a?">> \o
                 (IF (~has_real_video) /\ has_attached_pic /\ ext \in COVER_ART_EXTS
                  THEN <<"-map", "0:v?", "-c:v", "copy">> ELSE <<>>)
         IN  Toks(<<"ffmpeg", "-y", "-i", "SRC">> \o map_args \o <<"-af", "CHAIN">>)

\* hq_cmd_list
HqCmd(ext, hrv, hap, br) ==
    BaseCmd(ext, hrv, hap)
        \o _adjust_bitrate_in_options(_codec_for_ext(ext, FALSE), br) \o <<T("DST")>>

\* faulty variant: the retry repeats the high-quality command as it was
HqSubCmd_unchanged(ext, hrv, hap, br) ==
    BaseCmd(ext, hrv, hap)
        \o _adjust_bitrate_in_options(_codec_for_ext(ext, FALSE), br) \o <<T("DST")>>

\* hq_cmd_list_sub
HqSubCmd(ext, hrv, hap, br) ==
    BaseCmd(ext, hrv, hap) \o Toks(<<"-c:s", "mov_text">>)
        \o _adjust_bitrate_in_options(_codec_for_ext(ext, FALSE), br) \o <<T("DST")>>

\* faulty variant: the safe command is built on the command of the subtitle retry
SafeCmd_after_retry(ext, hrv, hap, br) ==
    BaseCmd(ext, hrv, hap) \o Toks(<<"-c:s", "mov_text">>)
        \o _adjust_bitrate_in_options(_codec_for_ext(ext, TRUE), br) \o <<T("DST")>>

\* safe_cmd_list
SafeCmd(ext, hrv, hap, br) ==
    BaseCmd(ext, hrv, hap)
        \o _adjust_bitrate_in_options(_codec_for_ext(ext, TRUE), br) \o <<T("DST")>>

\* --------------------------------------------------------- the filter chain
\* The chain is text: Python prints the floats ratio and 1/ratio in decimal.
\* A number too wide for TLC's integers is a sequence of base-10000 digits,
\* least significant first; a decimal fraction is such a number scaled by 10^16.
WideBase == 10000

\* a natural number below 10^8
Wide(n) == <<n % WideBase, n \div WideBase>>

RECURSIVE Carried(_, _, _)
Carried(cols, k, carry) ==
    IF k > Len(cols) THEN (IF carry = 0 THEN <<>> ELSE <<carry>>)
    ELSE <<(cols[k] + carry) % WideBase>>
            \o Carried(cols, k + 1, (cols[k] + carry) \div WideBase)

WideDigit(a, i) == IF i \in 1..Len(a) THEN a[i] ELSE 0

WideAdd(a, b) ==
    Carried([k \in 1..(IF Len(a) > Len(b) THEN Len(a) ELSE Len(b)) |->
                WideDigit(a, k) + WideDigit(b, k)], 1, 0)

RECURSIVE ColumnSum(_, _, _, _)
ColumnSum(a, b, k, i) ==
    IF i > Len(a) THEN 0
    ELSE a[i] * WideDigit(b, k - i + 1) + ColumnSum(a, b, k, i + 1)

WideMul(a, b) ==
    Carried([k \in 1..(Len(a) + Len(b)) |-> ColumnSum(a, b, k, 1)], 1, 0)

\* a <= b
WideLeq(a, b) ==
    LET n == IF Len(a) > Len(b) THEN Len(a) ELSE Len(b)
    IN  \/ \A i \in 1..n : WideDigit(a, i) = WideDigit(b, i)
        \/ \E i \in 1..n :
              /\ WideDigit(a, i) < WideDigit(b, i)
              /\ \A j \in (i + 1)..n : WideDigit(a, j) = WideDigit(b, j)

WideEq(a, b) == WideLeq(a, b) /\ WideLeq(b, a)

\* 10^16, the scale of the decimal fractions
WideScale == <<0, 0, 0, 0, 1>>

\* ratio = 432 / 440 as the f-string prints it: 0.9818181818181818
RatioText == <<1818, 1818, 1818, 9818>>

\* 1 / ratio as the f-string prints it: 1.0185185185185186
InverseRatioText == <<5186, 8518, 1851, 185, 1>>

\* faulty variant: the tempo filter is given the ratio itself
Chain_tempo_not_inverted(original_sr, target_sr) ==
    [asetrate |-> [rate |-> original_sr, times |-> RatioText],
     atempo |-> RatioText,
     aresample |-> target_sr]

\* chain = f"asetrate={original_sr}*{ratio},atempo={1/ratio},aresample={target_sr}"
Chain(original_sr, target_sr) ==
    [asetrate |-> [rate |-> original_sr, times |-> RatioText],
     atempo |-> InverseRatioText,
     aresample |-> target_sr]

\* ------------------------------------------------- transcoder diagnostics
\* A diagnostic (stderr) is a sequence of lines; the lines the transcoder is
\* let to print, and what the code's pattern tests see in each.
L_BANNER == "ffmpeg version 6.0 Copyright (c) 2000-2023"
L_CONFIG == "  --enable-gpl"
L_SUBCODEC == "Subtitle codec 94213 is not supported."
L_SUBSTREAM == "Stream #0:2 -> #0:2 (subtitle)"
L_HEADER == "Could not write header for output file #0"
L_FAILED == "Conversion failed!"

\* the lines under the version line of the banner, as the transcoder prints
\* them (indented by two blanks), and the same lines starting in column 0
L_BUILT == "  built with gcc 12.2.0"
L_CONFIGURATION == "  configuration: --enable-gpl --enable-libx264"
L_LIBAVUTIL == "  libavutil      58.  2.100 / 58.  2.100"
L_LIBSWSCALE == "  libswscale      7.  1.100 /  7.  1.100"
L_BUILT_0 == "built with gcc 12.2.0"
L_CONFIGURATION_0 == "configuration: --enable-gpl"
L_LIBAVUTIL_0 == "libavutil      58.  2.100 / 58.  2.100"
L_LIBSWSCALE_0 == "libswscale      7.  1.100 /  7.  1.100"
L_BOM == "Incorrect BOM value"
L_COMMENT == "Error reading comment frame, skipped"

\* what a line starts with: the number of blanks before its first word, and
\* that first word or phrase
LineStart(ln) ==
    CASE ln = L_BANNER -> [indent |-> 0, head |-> "ffmpeg version"]
      [] ln = L_CONFIG -> [indent |-> 2, head |-> "--option"]
      [] ln = L_BUILT -> [indent |-> 2, head |-> "built with"]
      [] ln = L_BUILT_0 -> [indent |-> 0, head |-> "built with"]
      [] ln = L_CONFIGURATION -> [indent |-> 2, head |-> "configuration:"]
      [] ln = L_CONFIGURATION_0 -> [indent |-> 0, head |-> "configuration:"]
      [] ln = L_LIBAVUTIL -> [indent |-> 2, head |-> "libav"]
      [] ln = L_LIBAVUTIL_0 -> [indent |-> 0, head |-> "libav"]
      [] ln = L_LIBSWSCALE -> [indent |-> 2, head |-> "libsw"]
      [] ln = L_LIBSWSCALE_0 -> [indent |-> 0, head |-> "libsw"]
      [] ln = L_BOM -> [indent |-> 0, head |-> "Incorrect BOM value"]
      [] ln = L_COMMENT -> [indent |-> 0, head |-> "Error reading comment frame, skipped"]
      [] OTHER -> [indent |-> 0, head |-> "other"]

\* _FFMPEG_IGNORE_LINES.match(ln): the pattern is anchored at the first
\* character of the line; only its --option alternative lets blanks come first
IsBoilerplate(ln) ==
    LET st == LineStart(ln)
    IN  \/ st.indent = 0
           /\ st.head \in {"ffmpeg version", "built with", "configuration:", "libav",
                           "Incorrect BOM value", "Error reading comment frame, skipped"}
        \/ st.head = "--option"

\* "<word>" in err_lower, for the words the subtitle fallback looks for
HasWord(diag, w) ==
    \E i \in 1..Len(diag) :
        CASE w = "subtitle" -> diag[i] \in {L_SUBCODEC, L_SUBSTREAM}
          [] w = "codec" -> diag[i] = L_SUBCODEC
          [] w = "not supported" -> diag[i] = L_SUBCODEC
          [] w = "could not write header" -> diag[i] = L_HEADER
          [] OTHER -> FALSE

\* the test of the subtitle fallback on the high-quality attempt's stderr
MentionsUnsupportedSubtitle(diag) ==
    HasWord(diag, "subtitle")
        /\ (HasWord(diag, "codec") \/ HasWord(diag, "not supported")
            \/ HasWord(diag, "could not write header"))

RECURSIVE SelectLines(_)
SelectLines(lines) ==
    IF lines = <<>> THEN <<>>
    ELSE IF IsBoilerplate(Head(lines)) THEN SelectLines(Tail(lines))
    ELSE <<Head(lines)>> \o SelectLines(Tail(lines))

\* the lines of _clean_ffmpeg_err's result
_clean_ffmpeg_err(raw) ==
    LET meaningful_lines == SelectLines(raw)
        n == Len(meaningful_lines)
    IN  IF n = 0 THEN <<"(no ffmpeg stderr captured)">>
        ELSE SubSeq(meaningful_lines, IF n > TailLines THEN n - TailLines + 1 ELSE 1, n)

\* faulty variant: the safe attempt's diagnostic is reported twice
FinalErrMessage_safe_twice(hq_stderr, safe_stderr) ==
    <<"HQ error:">> \o _clean_ffmpeg_err(safe_stderr)
        \o <<"Safe error:">> \o _clean_ffmpeg_err(safe_stderr)

\* final_err_message of convert_to_432, as lines
FinalErrMessage(hq_stderr, safe_stderr) ==
    <<"HQ error:">> \o _clean_ffmpeg_err(hq_stderr)
        \o <<"Safe error:">> \o _clean_ffmpeg_err(safe_stderr)

\* what a failing high-quality attempt may print
HqDiags ==
    {<<L_BANNER, L_SUBCODEC>>, <<L_SUBSTREAM, L_HEADER>>, <<L_SUBSTREAM>>,
     <<L_BANNER, L_CONFIG>>}

\* what a failing subtitle retry or safe attempt may print
SafeDiags == {<<L_BANNER, L_FAILED>>, <<L_SUBCODEC>>}

\* lines of a long diagnostic that are no boilerplate of any kind
ReportLines ==
    <<"Input #0, mp3, from 'a.mp3':", "  Duration: 00:03:25.00", "  Stream #0:0: Audio: mp3",
      "Stream mapping:", "  Stream #0:0 -> #0:0 (mp3 -> mp3)", "Press [q] to stop",
      "Output #0, mp3, to 'a_432.mp3':", "  Stream #0:0: Audio: mp3, 48000 Hz",
      "size= 256kB time=00:00:10", "size= 512kB time=00:00:20", "size= 768kB time=00:00:30",
      "size=1024kB time=00:00:40", "Error writing trailer", "Error closing file",
      "Error while filtering", "Terminating thread", L_FAILED>>

\* the lines of the transcoder's banner, of known benign warnings, and the
\* same lines in other places of the line
NoiseLines ==
    {L_BANNER, L_CONFIG, L_BUILT, L_BUILT_0, L_CONFIGURATION, L_CONFIGURATION_0,
     L_LIBAVUTIL, L_LIBAVUTIL_0, L_LIBSWSCALE, L_LIBSWSCALE_0, L_BOM, L_COMMENT}

\* raw diagnostics: the first n report lines with up to two noise lines put in
RawDiags ==
    LET N == Len(ReportLines)
    IN  {SubSeq(ReportLines, 1, n) : n \in 0..N}
        \cup {SubSeq(ReportLines, 1, at) \o <<b>> \o SubSeq(ReportLines, at + 1, n) :
                    b \in NoiseLines, at \in {0, 1, N - 2}, n \in {0, 1, N - 2, N - 1, N}}
        \cup {<<L_BANNER, b>> \o SubSeq(ReportLines, 1, n) :
                    b \in NoiseLines, n \in {0, 1, N}}


------------------------------------------------------------------------------
\* ------------------------------------------------------------------ state

VARIABLES
    cfg,              \* the settings: replace_original, same_folder, keep, src_is_file
    files,            \* the enumerated batch: indices into FileCatalog
    fs,               \* the files that exist: path -> content
    dirs,             \* the directories that exist
    pc,               \* where the worker thread is
    idx,              \* idx of the worker's for loop
    job,              \* the locals of the iteration: f_path, dst_file, ext, ...
    attempts,         \* the transcoder invocations of the running convert_to_432
    exc,              \* the exception that is propagating, if any
    swap,             \* the locals of _replace_original_with_backup
    errors_occurred,
    queue,            \* callbacks posted with root.after(0, ...), not yet run
    bar,              \* the progress bar: value, maximum
    shown,            \* the message boxes shown so far
    polling,          \* _poll is armed (the Start button is disabled)
    hist,             \* what the worker did, kept for the properties
    media,            \* what the prober tools print for each file, at this moment
    cache,            \* _MEDIA_INFO_CACHE: resolved path -> probe result
    probe,            \* the probe calls made so far, kept for the properties
    tree,             \* the folder find_audio_files is run on
    call,             \* one application of a codec-policy function: input, result
    ctl,              \* the controller's account of Start: threads started, ...
    boot              \* main() and _resolve_ffmpeg: the machine, the step, the outcome

vars == <<cfg, files, fs, dirs, pc, idx, job, attempts, exc, swap,
          errors_occurred, queue, bar, shown, polling, hist,
          media, cache, probe, tree, call, ctl, boot>>

\* the state of the prober, of the codec-policy functions and of Start
auxVars == <<media, cache, probe, tree, call, ctl, boot>>

\* the state of the controller's main loop
guiVars == <<queue, bar, shown, polling>>

workerVars == <<cfg, files, fs, dirs, pc, idx, job, attempts, exc, swap,
                errors_occurred, hist>>

\* ---------------------------------------------------------------- inputs
\* The candidate source files: path, and what _probe_media_info says of it.
FileCatalog ==
    << [path |-> [dir |-> "S", name |-> <<T("a"), T(".mp3")>>],
        has_audio |-> TRUE, has_real_video |-> FALSE, has_attached_pic |-> TRUE,
        sample_rate |-> 44100, bit_rate |-> 192000],
       [path |-> [dir |-> "S", name |-> <<T("b"), T(".mp4")>>],
        has_audio |-> TRUE, has_real_video |-> TRUE, has_attached_pic |-> FALSE,
        sample_rate |-> 48000, bit_rate |-> NoneInt],
       [path |-> [dir |-> "S/sub", name |-> <<T("c"), T(".mov")>>],
        has_audio |-> TRUE, has_real_video |-> FALSE, has_attached_pic |-> FALSE,
        sample_rate |-> 44100, bit_rate |-> 128000],
       [path |-> [dir |-> "S", name |-> <<T("n"), T(".dat")>>],
        has_audio |-> FALSE, has_real_video |-> FALSE, has_attached_pic |-> FALSE,
        sample_rate |-> NoneInt, bit_rate |-> NoneInt] >>

\* faulty variant: every output lands in the destination root itself
OutDir_flat(d) == "O"

\* dst_base / rel_path.parent for a source directory
OutDir(d) == IF d = "S/sub" THEN "O/sub" ELSE "O"

Content(kind, id) == [k |-> kind, id |-> id]

NoExc == [type |-> "none", origin |-> "none", stderr |-> <<>>]
NoJob == [f_path |-> [dir |-> "", name |-> <<>>], dst_file |-> [dir |-> "", name |-> <<>>],
          ext |-> ""]
NoSwap == [backup |-> [dir |-> "", name |-> <<>>], trigger |-> "none", rollback |-> "none",
           pre |-> <<>>]
NoHist == [visited |-> <<>>, converted |-> {}, failed |-> {}, swapped |-> {},
           undeleted |-> {}]

\* a dict with no entry
EmptyMap == [x \in {} |-> 0]

\* no probe call was made yet
NoProbe == [n |-> 0, changes |-> 0, last |-> <<>>, asked |-> EmptyMap, ran |-> EmptyMap,
            returned |-> EmptyMap, finds |-> 0, found |-> {}, byfind |-> {}]

\* no folder was chosen
NoTree == [entries |-> {}, recursive |-> FALSE, root_432 |-> FALSE]
NoCall == [fn |-> "none", ext |-> "", has_real_video |-> FALSE, safe |-> FALSE,
           orig_bps |-> NoneInt, opts |-> <<>>, ext_out |-> "", adjusted |-> <<>>,
           has_attached_pic |-> FALSE, original_sr |-> 0, target_sr |-> 0,
           hq_stderr |-> <<>>, chain |-> <<>>, cmds |-> <<>>, cleaned |-> <<>>,
           data |-> <<>>, dropped |-> [found |-> FALSE, path |-> <<>>],
           mode |-> "", pair |-> <<>>, dsts |-> <<>>, tables |-> <<>>, runs |-> 0]

\* the places _resolve_ffmpeg looks in, and what lies in each: "both"
\* executables, "ffmpeg" alone or "none" ("absent": no --ffmpeg argument)
\* A place is a kind and the number of the search root it is under (0: none).
ArgPlace == <<"argument", 0>>
PathPlace == <<"path", 0>>
DownloadPlace == <<"download", 0>>
Places == {ArgPlace, PathPlace} \cup ({"vendors", "root", "sub"} \X {1, 2})

\* no place yet
NoPlace == <<>>

\* main() has not begun
NoBoot == [step |-> "off", nt |-> FALSE, frozen |-> FALSE, has |-> [q \in Places |-> "none"],
           test |-> FALSE, consulted |-> <<>>, from |-> NoPlace, downloaded |-> FALSE,
           tools |-> "unknown", exit |-> NoneInt, controller |-> FALSE]

\* the tools were resolved on the search path, the controller was created and
\* the main loop runs
InMainloop == [NoBoot EXCEPT !.step = "mainloop", !.has = [@ EXCEPT ![PathPlace] = "both"],
                             !.consulted = <<PathPlace>>, !.from = PathPlace, !.tools = "ok",
                             !.controller = TRUE]

\* self.thread = None: Start was never pressed.  requests counts the runs of
\* _start, started the threads it started; dropped: the button was pressed
\* while disabled; overlapped: a thread was started while another was alive
NoCtl == [requests |-> 0, started |-> 0, dropped |-> FALSE, overlapped |-> FALSE]

\* the worker thread and the main loop are not running
WorkerIdle ==
    /\ cfg = [replace_original |-> FALSE, same_folder |-> FALSE, keep |-> FALSE,
              src_is_file |-> FALSE]
    /\ files = <<>> /\ fs = EmptyMap /\ dirs = {}
    /\ pc = "off" /\ idx = 0 /\ job = NoJob /\ attempts = <<>> /\ exc = NoExc
    /\ swap = NoSwap /\ errors_occurred = FALSE /\ hist = NoHist
    /\ queue = <<>> /\ bar = [value |-> 0, maximum |-> 100] /\ shown = <<>>
    /\ polling = FALSE
    /\ ctl = NoCtl
    /\ boot = NoBoot

\* no file was probed and the cache is as at import
ProberIdle == media = EmptyMap /\ cache = EmptyMap /\ probe = NoProbe /\ tree = NoTree

\* ------------------------------------------------------ filesystem helpers
Exists(fsys, p) == p \in DOMAIN fsys

WriteFile(fsys, p, c) == [q \in DOMAIN fsys \cup {p} |-> IF q = p THEN c ELSE fsys[q]]

\* Path.unlink(missing_ok=True)
Unlink(fsys, p) == [q \in DOMAIN fsys \ {p} |-> fsys[q]]

\* faulty variant: the rename copies and leaves its source in place
OsReplace_copies(fsys, src, dst) ==
    [q \in DOMAIN fsys \cup {dst} |-> IF q = dst THEN fsys[src] ELSE fsys[q]]

\* a successful os.replace(src, dst): an atomic rename that overwrites dst
OsReplace(fsys, src, dst) ==
    [q \in (DOMAIN fsys \cup {dst}) \ {src} |-> IF q = dst THEN fsys[src] ELSE fsys[q]]

BackupName(p, i) == WithName(p, p.name \o <<BakTok(i)>>)

\* faulty variant: <name>.bak is taken without looking whether it exists
_unique_backup_path_unchecked(fsys, p) == 0

\* faulty variant: the last free name is taken instead of the first
_unique_backup_path_last_free(fsys, p) ==
    IF \A i \in 0..(BackupLimit - 1) : Exists(fsys, BackupName(p, i))
    THEN -1
    ELSE CHOOSE i \in 0..(BackupLimit - 1) :
            /\ ~Exists(fsys, BackupName(p, i))
            /\ \A j \in (i + 1)..(BackupLimit - 1) : Exists(fsys, BackupName(p, j))

\* the number i of the first of <name>.bak, <name>.bak1, ... <name>.bak999 that
\* does not exist (0 is <name>.bak); -1 when all BackupLimit exist (RuntimeError)
_unique_backup_path(fsys, p) ==
    IF \A i \in 0..(BackupLimit - 1) : Exists(fsys, BackupName(p, i))
    THEN -1
    ELSE CHOOSE i \in 0..(BackupLimit - 1) :
            /\ ~Exists(fsys, BackupName(p, i))
            /\ \A j \in 0..(i - 1) : Exists(fsys, BackupName(p, j))

\* faulty variant: no name is taken for a temp name
HasTmpMark_never(p) == FALSE

\* '.__tmp432__' in dst_file.name
HasTmpMark(p) == \E i \in 1..Len(p.name) : p.name[i].k = TMP_MARK

\* faulty variant: the same-folder setting is looked at before replace-original
DstFile_same_folder_first(c, f) ==
    LET f_path == f.path
        ext_out == _choose_output_ext(ExtText(Suffix(f_path.name)), f.has_real_video)
        out_name == Stem(f_path.name) \o <<T(OUT_SUFFIX), T(ext_out)>>
    IN  IF c.same_folder THEN WithName(f_path, out_name)
        ELSE IF c.replace_original
        THEN WithName(f_path, Stem(f_path.name) \o <<T(TMP_MARK)>> \o Suffix(f_path.name))
        ELSE IF c.src_is_file THEN [dir |-> "O", name |-> out_name]
        ELSE [dir |-> OutDir(f_path.dir), name |-> out_name]

\* faulty variant: outside replace mode the output keeps the stem of the source
DstFile_without_suffix(c, f) ==
    LET f_path == f.path
        ext_out == _choose_output_ext(ExtText(Suffix(f_path.name)), f.has_real_video)
        out_name == Stem(f_path.name) \o <<T(ext_out)>>
    IN  IF c.replace_original
        THEN WithName(f_path, Stem(f_path.name) \o <<T(TMP_MARK)>> \o Suffix(f_path.name))
        ELSE IF c.same_folder THEN WithName(f_path, out_name)
        ELSE IF c.src_is_file THEN [dir |-> "O", name |-> out_name]
        ELSE [dir |-> OutDir(f_path.dir), name |-> out_name]

\* dst_file of the worker for source f (an entry of FileCatalog)
DstFile(c, f) ==
    LET f_path == f.path
        ext_out == _choose_output_ext(ExtText(Suffix(f_path.name)), f.has_real_video)
        out_name == Stem(f_path.name) \o <<T(OUT_SUFFIX), T(ext_out)>>
    IN  IF c.replace_original
        THEN WithName(f_path, Stem(f_path.name) \o <<T(TMP_MARK)>> \o Suffix(f_path.name))
        ELSE IF c.same_folder THEN WithName(f_path, out_name)
        ELSE IF c.src_is_file THEN [dir |-> "O", name |-> out_name]
        ELSE [dir |-> OutDir(f_path.dir), name |-> out_name]


\* ------------------------------------------------------------------- Init
\* The batches find_audio_files (or a single chosen file) can yield: strictly
\* increasing index sequences, every file with audio when a folder was
\* enumerated, any one file when the source is a single file.
Batches(src_is_file) ==
    IF src_is_file
    THEN {<<i>> : i \in DOMAIN FileCatalog}
    ELSE UNION {{s \in [1..n -> {i \in DOMAIN FileCatalog : FileCatalog[i].has_audio}] :
                    \A a, b \in 1..n : a < b => s[a] < s[b]} : n \in 0..MaxFiles}

\* The backups earlier swaps left beside each source: the numbers i of the
\* existing <name>.bak<i> (0 is <name>.bak); the last two samples are every name but the last taken, and every name taken.
PreBackupSamples == {{}, {0}, {1}, {0, 1}, 0..(BackupLimit - 2), 0..(BackupLimit - 1)}

\* What already lies at a destination path before the run: nothing, an empty
\* file, or a file with content.
PreDstKinds == {"empty", "prev"}

InitFs(c, batch, pb, pdPos, pdKind) ==
    LET srcs == {FileCatalog[batch[j]].path : j \in DOMAIN batch}
        \* the two long samples lie beside the first file of the batch only
        baked == IF Cardinality(pb) < BackupLimit - 1 THEN srcs
                 ELSE {FileCatalog[batch[1]].path}
        baks == {BackupName(p, i) : p \in baked, i \in pb}
        pds == IF pdPos = 0 THEN {} ELSE {DstFile(c, FileCatalog[batch[pdPos]])}
    IN  [q \in srcs \cup baks \cup pds |->
            IF q \in pds THEN Content(pdKind, 0)
            ELSE IF q \in srcs
            THEN Content("orig", CHOOSE j \in DOMAIN batch : FileCatalog[batch[j]].path = q)
            ELSE Content("old", q.name[Len(q.name)].n)]

\* the settings, the batch and the files there are when Start is pressed
BatchInit ==
    /\ cfg \in [replace_original : BOOLEAN, same_folder : BOOLEAN, keep : BOOLEAN,
                src_is_file : BOOLEAN]
    /\ files \in Batches(cfg.src_is_file)
    /\ \E pb \in (IF cfg.replace_original THEN PreBackupSamples ELSE {{}}),
          pdPos \in 0..Len(files), pdKind \in PreDstKinds :
            /\ (pdPos = 0 => pdKind = "prev")
            \* every backup name but the last taken: one chosen file; every name
            \* taken: one chosen file, or a folder of two; nothing else varied
            /\ (Cardinality(pb) >= BackupLimit - 1 =>
                    /\ ~cfg.keep /\ ~cfg.same_folder /\ pdPos = 0
                    /\ \/ cfg.src_is_file /\ files = <<1>>
                       \/ Cardinality(pb) = BackupLimit /\ files = <<1, 2>>)
            /\ fs = InitFs(cfg, files, pb, pdPos, pdKind)
    /\ idx = 0
    /\ job = NoJob
    /\ attempts = <<>>
    /\ exc = NoExc
    /\ swap = NoSwap
    /\ errors_occurred = FALSE
    /\ queue = <<>>
    /\ bar = [value |-> 0, maximum |-> 100]
    /\ shown = <<>>
    /\ hist = NoHist
    /\ ProberIdle
    /\ call = NoCall

\* _start has just started the worker thread and called _poll
Init ==
    /\ BatchInit
    \* the source folders, the output root, and the folder of every file there is
    /\ dirs = {"S", "S/sub", "O"} \cup {p.dir : p \in DOMAIN fs}
    /\ pc = "begin"
    /\ polling = TRUE
    /\ ctl = [NoCtl EXCEPT !.requests = 1, !.started = 1]
    /\ boot = InMainloop

\* --------------------------------------------------- the worker: the loop
Post(ev) == queue' = Append(queue, ev)

BarEvent(i) == [t |-> "bar", v |-> i, m |-> ""]
MsgEvent(m) == [t |-> "msg", v |-> 0, m |-> m]

\* files = ...; total = len(files); if not total: ... return
WorkerBegin ==
    /\ pc = "begin"
    /\ IF Len(files) = 0
       THEN /\ Post(MsgEvent("info: no media files"))
            /\ pc' = "done"
            /\ UNCHANGED <<bar, idx>>
       ELSE /\ bar' = [bar EXCEPT !.maximum = Len(files)]
            /\ idx' = 1
            /\ pc' = "loop"
            /\ UNCHANGED queue
    /\ UNCHANGED <<auxVars, cfg, files, fs, dirs, job, attempts, exc, swap, errors_occurred,
                   shown, polling, hist>>

InLoop == pc = "loop" /\ idx <= Len(files)

Cur == FileCatalog[files[idx]]

Visit == hist' = [hist EXCEPT !.visited = Append(@, files[idx])]

\* continue: on to the next file
NextFile == idx' = idx + 1 /\ pc' = "loop"

\* the end of an iteration that ran convert_to_432: its locals are dead
EndIteration == NextFile /\ job' = NoJob /\ attempts' = <<>> /\ swap' = NoSwap

\* if not has_audio: continue
SkipNoAudio ==
    /\ InLoop
    /\ ~Cur.has_audio
    /\ Post(BarEvent(idx))
    /\ Visit
    /\ NextFile
    /\ UNCHANGED <<auxVars, cfg, files, fs, dirs, job, attempts, exc, swap, errors_occurred,
                   bar, shown, polling>>

\* dst_file.parent.mkdir(parents=True, exist_ok=True) raises OSError: it can
\* only when the directory is not there yet
MkdirFail ==
    /\ InLoop
    /\ Cur.has_audio
    /\ DstFile(cfg, Cur).dir \notin dirs
    /\ queue' = queue \o <<BarEvent(idx), MsgEvent("error: directory")>>
    /\ errors_occurred' = TRUE
    /\ Visit
    /\ NextFile
    /\ UNCHANGED <<auxVars, cfg, files, fs, dirs, job, attempts, exc, swap, bar, shown, polling>>

\* faulty variant: an empty destination is skipped too
SkipTest_any_size(c, fsys, dst) == c.keep /\ Exists(fsys, dst)

\* if self.keep.get() and dst_file.exists() and dst_file.stat().st_size > 0
SkipTest(c, fsys, dst) ==
    c.keep /\ Exists(fsys, dst) /\ fsys[dst].k # "empty"

SkipExisting ==
    /\ InLoop
    /\ Cur.has_audio
    /\ dirs' = dirs \cup {DstFile(cfg, Cur).dir}
    /\ SkipTest(cfg, fs, DstFile(cfg, Cur))
    /\ Post(BarEvent(idx))
    /\ Visit
    /\ NextFile
    /\ UNCHANGED <<auxVars, cfg, files, fs, job, attempts, exc, swap, errors_occurred,
                   bar, shown, polling>>

\* the call of convert_to_432, up to its first transcoder invocation
CallConvert ==
    /\ InLoop
    /\ Cur.has_audio
    /\ dirs' = dirs \cup {DstFile(cfg, Cur).dir}
    /\ ~SkipTest(cfg, fs, DstFile(cfg, Cur))
    /\ Post(BarEvent(idx))
    /\ Visit
    /\ job' = [f_path |-> Cur.path, dst_file |-> DstFile(cfg, Cur),
               ext |-> Lower(ExtText(Suffix(DstFile(cfg, Cur).name)))]
    /\ attempts' = <<>>
    /\ pc' = "hq"
    /\ UNCHANGED <<auxVars, cfg, files, fs, idx, exc, swap, errors_occurred, bar, shown, polling>>

\* after the loop: if errors_occurred: showwarning(...); the thread ends
WorkerEnd ==
    /\ pc = "loop"
    /\ idx > Len(files)
    /\ IF errors_occurred
       THEN Post(MsgEvent("warning: finished with errors"))
       ELSE UNCHANGED queue
    /\ pc' = "done"
    /\ UNCHANGED <<auxVars, cfg, files, fs, dirs, idx, job, attempts, exc, swap, errors_occurred,
                   bar, shown, polling, hist>>


\* ------------------------------------------ the engine: convert_to_432
\* The transcoder run on the job's destination: exit 0 leaves the converted
\* file there; a failing run leaves the destination as it was or partly written.
TranscoderFs(fsys, dst, rc, wrote) ==
    IF rc = 0 THEN WriteFile(fsys, dst, Content("conv", idx))
    ELSE IF wrote THEN WriteFile(fsys, dst, Content("part", idx))
    ELSE fsys

Attempt(tier, cmd, rc, diag) == [tier |-> tier, cmd |-> cmd, rc |-> rc, stderr |-> diag]

\* faulty variant: the retry is made without looking at the diagnostic text
SubtitleFallbackApplies_any_error(ext, has_real_video, diag) ==
    /\ has_real_video
    /\ ext \in VIDEO_CONTAINER_EXTS
    /\ ext \in MP4_FAMILY

\* the test guarding the subtitle fallback
SubtitleFallbackApplies(ext, has_real_video, diag) ==
    /\ has_real_video
    /\ ext \in VIDEO_CONTAINER_EXTS
    /\ ext \in MP4_FAMILY
    /\ MentionsUnsupportedSubtitle(diag)

\* where convert_to_432 goes after the high-quality attempt
AfterHq(rc, fallback) ==
    IF rc = 0 THEN "conv_ret" ELSE IF fallback THEN "sub" ELSE "safe"

\* faulty variant: the safe attempt is made whatever the subtitle retry's exit code
AfterSub_always_safe(rc) == "safe"

\* ... after the subtitle retry
AfterSub(rc) == IF rc = 0 THEN "conv_ret" ELSE "safe"

\* ... after the safe attempt
AfterSafe(rc) == IF rc = 0 THEN "conv_ret" ELSE "except_cpe"

Converted == hist' = [hist EXCEPT !.converted = @ \cup {idx}]

\* proc = _run(hq_cmd_list), returncode 0
HqAttemptOk ==
    /\ pc = "hq"
    /\ attempts' = Append(attempts, Attempt("hq",
            HqCmd(job.ext, Cur.has_real_video, Cur.has_attached_pic, Cur.bit_rate), 0, <<>>))
    /\ fs' = TranscoderFs(fs, job.dst_file, 0, TRUE)
    /\ pc' = AfterHq(0, FALSE)
    /\ Converted
    /\ UNCHANGED <<auxVars, cfg, files, dirs, idx, job, exc, swap, errors_occurred,
                   queue, bar, shown, polling>>

\* proc = _run(hq_cmd_list), returncode non-zero
HqAttemptFail ==
    /\ pc = "hq"
    /\ \E diag \in HqDiags, wrote \in BOOLEAN :
        /\ attempts' = Append(attempts, Attempt("hq",
                HqCmd(job.ext, Cur.has_real_video, Cur.has_attached_pic, Cur.bit_rate), 1, diag))
        /\ fs' = TranscoderFs(fs, job.dst_file, 1, wrote)
        /\ pc' = AfterHq(1, SubtitleFallbackApplies(job.ext, Cur.has_real_video, diag))
    /\ UNCHANGED <<auxVars, cfg, files, dirs, idx, job, exc, swap, errors_occurred,
                   queue, bar, shown, polling, hist>>

\* proc_sub = _run(hq_cmd_list_sub), returncode 0
SubRetryOk ==
    /\ pc = "sub"
    /\ attempts' = Append(attempts, Attempt("sub",
            HqSubCmd(job.ext, Cur.has_real_video, Cur.has_attached_pic, Cur.bit_rate), 0, <<>>))
    /\ fs' = TranscoderFs(fs, job.dst_file, 0, TRUE)
    /\ pc' = AfterSub(0)
    /\ IF AfterSub(0) = "conv_ret" THEN Converted ELSE UNCHANGED hist
    /\ UNCHANGED <<auxVars, cfg, files, dirs, idx, job, exc, swap, errors_occurred,
                   queue, bar, shown, polling>>

\* proc_sub = _run(hq_cmd_list_sub), returncode non-zero
SubRetryFail ==
    /\ pc = "sub"
    /\ \E diag \in SafeDiags, wrote \in BOOLEAN :
        /\ attempts' = Append(attempts, Attempt("sub",
                HqSubCmd(job.ext, Cur.has_real_video, Cur.has_attached_pic, Cur.bit_rate), 1, diag))
        /\ fs' = TranscoderFs(fs, job.dst_file, 1, wrote)
    /\ pc' = AfterSub(1)
    /\ UNCHANGED <<auxVars, cfg, files, dirs, idx, job, exc, swap, errors_occurred,
                   queue, bar, shown, polling, hist>>

\* proc_safe = _run(safe_cmd_list), returncode 0
SafeAttemptOk ==
    /\ pc = "safe"
    /\ attempts' = Append(attempts, Attempt("safe",
            SafeCmd(job.ext, Cur.has_real_video, Cur.has_attached_pic, Cur.bit_rate), 0, <<>>))
    /\ fs' = TranscoderFs(fs, job.dst_file, 0, TRUE)
    /\ pc' = AfterSafe(0)
    /\ Converted
    /\ UNCHANGED <<auxVars, cfg, files, dirs, idx, job, exc, swap, errors_occurred,
                   queue, bar, shown, polling>>

\* proc_safe = _run(safe_cmd_list), returncode non-zero: raise CalledProcessError
SafeAttemptFail ==
    /\ pc = "safe"
    /\ \E diag \in SafeDiags, wrote \in BOOLEAN :
        /\ attempts' = Append(attempts, Attempt("safe",
                SafeCmd(job.ext, Cur.has_real_video, Cur.has_attached_pic, Cur.bit_rate), 1, diag))
        /\ fs' = TranscoderFs(fs, job.dst_file, 1, wrote)
        /\ exc' = [type |-> "CalledProcessError", origin |-> "convert_to_432",
                   stderr |-> FinalErrMessage(attempts[1].stderr, diag)]
    /\ pc' = AfterSafe(1)
    /\ hist' = [hist EXCEPT !.failed = @ \cup {idx}]
    /\ UNCHANGED <<auxVars, cfg, files, dirs, idx, job, swap, errors_occurred,
                   queue, bar, shown, polling>>


\* ------------------------------------------- the worker: after the engine
\* faulty variant: the swap is called in every output mode
AfterConvert_always_swap(c) == "swap_call"

\* if self.replace_original.get(): _replace_original_with_backup(...)
AfterConvert(c) == IF c.replace_original THEN "swap_call" ELSE "loop"

\* convert_to_432 returned
ConvertReturned ==
    /\ pc = "conv_ret"
    /\ IF AfterConvert(cfg) = "swap_call"
       THEN pc' = "swap_call" /\ UNCHANGED <<idx, job, attempts, swap>>
       ELSE EndIteration
    /\ UNCHANGED <<auxVars, cfg, files, fs, dirs, exc, errors_occurred,
                   queue, bar, shown, polling, hist>>

\* faulty variant: a per-file error ends the loop
AfterFileError_abort == "done"

\* where the worker goes after a per-file error was handled
AfterFileError == "loop"

\* dst_file.unlink(missing_ok=True) inside try/except: the file is removed, or
\* the unlink fails and the failure is swallowed
CleanupTemp(doIt) ==
    \/ /\ fs' = (IF doIt THEN Unlink(fs, job.dst_file) ELSE fs)
       /\ hist' = (IF doIt THEN [hist EXCEPT !.undeleted = @ \ {idx}] ELSE hist)
    \/ /\ doIt /\ Exists(fs, job.dst_file) /\ fs' = fs
       /\ hist' = [hist EXCEPT !.undeleted = @ \cup {idx}]

\* except subprocess.CalledProcessError as e_conv
ExceptConversion ==
    /\ pc = "except_cpe"
    /\ CleanupTemp(cfg.replace_original /\ HasTmpMark(job.dst_file))
    /\ Post(MsgEvent("error: conversion"))
    /\ errors_occurred' = TRUE
    /\ exc' = NoExc
    /\ idx' = idx + 1 /\ pc' = AfterFileError
    /\ job' = NoJob /\ attempts' = <<>> /\ swap' = NoSwap
    /\ UNCHANGED <<auxVars, cfg, files, dirs, bar, shown, polling>>

\* except Exception as e_gen
ExceptGeneral ==
    /\ pc = "except_gen"
    /\ CleanupTemp(cfg.replace_original /\ HasTmpMark(job.dst_file))
    /\ Post(MsgEvent("error: unexpected"))
    /\ errors_occurred' = TRUE
    /\ exc' = NoExc
    /\ idx' = idx + 1 /\ pc' = AfterFileError
    /\ job' = NoJob /\ attempts' = <<>> /\ swap' = NoSwap
    /\ UNCHANGED <<auxVars, cfg, files, dirs, bar, shown, polling>>

\* ------------------------- the swap: _replace_original_with_backup
\* backup = _unique_backup_path(original)
SwapCall ==
    /\ pc = "swap_call"
    /\ hist' = [hist EXCEPT !.swapped = @ \cup {idx}]
    /\ LET i == _unique_backup_path(fs, job.f_path)
       IN  IF i = -1
           THEN /\ exc' = [type |-> "RuntimeError", origin |-> "too many backups",
                           stderr |-> <<>>]
                /\ swap' = [NoSwap EXCEPT !.pre = fs]
                /\ pc' = "finally"
           ELSE /\ swap' = [backup |-> BackupName(job.f_path, i), trigger |-> "none",
                            rollback |-> "none", pre |-> fs]
                /\ pc' = "swap_s1"
                /\ UNCHANGED exc
    /\ UNCHANGED <<auxVars, cfg, files, fs, dirs, idx, job, attempts, errors_occurred,
                   queue, bar, shown, polling>>

\* os.replace(str(original), str(backup))
SwapRename1Ok ==
    /\ pc = "swap_s1"
    /\ Exists(fs, job.f_path)
    /\ fs' = OsReplace(fs, job.f_path, swap.backup)
    /\ pc' = "swap_s2"
    /\ UNCHANGED <<auxVars, cfg, files, dirs, idx, job, attempts, exc, swap, errors_occurred,
                   queue, bar, shown, polling, hist>>

\* os.replace(str(original), str(backup)) raises
SwapRename1Fail ==
    /\ pc = "swap_s1"
    /\ swap' = [swap EXCEPT !.trigger = "original->backup"]
    /\ pc' = "swap_rb"
    /\ UNCHANGED <<auxVars, cfg, files, fs, dirs, idx, job, attempts, exc, errors_occurred,
                   queue, bar, shown, polling, hist>>

\* os.replace(str(new_file), str(original)); the function returns
SwapRename2Ok ==
    /\ pc = "swap_s2"
    /\ Exists(fs, job.dst_file)
    /\ fs' = OsReplace(fs, job.dst_file, job.f_path)
    /\ pc' = "finally"
    /\ UNCHANGED <<auxVars, cfg, files, dirs, idx, job, attempts, exc, swap, errors_occurred,
                   queue, bar, shown, polling, hist>>

\* os.replace(str(new_file), str(original)) raises
SwapRename2Fail ==
    /\ pc = "swap_s2"
    /\ swap' = [swap EXCEPT !.trigger = "candidate->original"]
    /\ pc' = "swap_rb"
    /\ UNCHANGED <<auxVars, cfg, files, fs, dirs, idx, job, attempts, exc, errors_occurred,
                   queue, bar, shown, polling, hist>>

\* faulty variant: no rollback is ever attempted
RollbackNeeded_never(fsys, original, backup) == FALSE

\* if not original.exists() and backup.exists()
RollbackNeeded(fsys, original, backup) == ~Exists(fsys, original) /\ Exists(fsys, backup)

\* faulty variant: a failing rollback's own error replaces the triggering one
RaisedError_last(trigger, rollback) ==
    IF rollback = "failed" THEN "backup->original" ELSE trigger

\* the error that leaves the except block: a bare raise re-raises the
\* triggering error whatever the rollback did
RaisedError(trigger, rollback) == trigger

\* faulty variant: the rollback restores the original and leaves the backup behind
RolledBack_keeps_backup(fsys, original, backup) == OsReplace_copies(fsys, backup, original)

\* os.replace(str(backup), str(original)) of the rollback, when it succeeds
RolledBack(fsys, original, backup) == OsReplace(fsys, backup, original)

\* the except block: the rollback rename renames, fails (swallowed) or is not needed
SwapRollback ==
    /\ pc = "swap_rb"
    /\ \E outcome \in {"done", "failed", "skipped"} :
        /\ (outcome = "skipped") <=> ~RollbackNeeded(fs, job.f_path, swap.backup)
        /\ fs' = IF outcome = "done" THEN RolledBack(fs, job.f_path, swap.backup) ELSE fs
        /\ swap' = [swap EXCEPT !.rollback = outcome]
        /\ exc' = [type |-> "OSError", origin |-> RaisedError(swap.trigger, outcome),
                   stderr |-> <<>>]
    /\ pc' = "finally"
    /\ UNCHANGED <<auxVars, cfg, files, dirs, idx, job, attempts, errors_occurred,
                   queue, bar, shown, polling, hist>>

\* finally: if dst_file.exists() and '.__tmp432__' in its name: unlink; then the
\* iteration ends, or the exception goes on to except Exception
SwapFinally ==
    /\ pc = "finally"
    /\ CleanupTemp(Exists(fs, job.dst_file) /\ HasTmpMark(job.dst_file))
    /\ IF exc = NoExc
       THEN EndIteration
       ELSE pc' = "except_gen" /\ UNCHANGED <<idx, job, attempts, swap>>
    /\ UNCHANGED <<auxVars, cfg, files, dirs, exc, errors_occurred,
                   queue, bar, shown, polling>>

\* ---------------------------------------------- the controller's main loop
\* a callback posted with root.after(0, ...) runs
RunCallback ==
    /\ queue # <<>>
    /\ queue' = Tail(queue)
    /\ IF Head(queue).t = "bar"
       THEN bar' = [bar EXCEPT !.value = Head(queue).v] /\ UNCHANGED shown
       ELSE shown' = Append(shown, Head(queue).m) /\ UNCHANGED bar
    /\ UNCHANGED <<auxVars, workerVars, polling>>

\* the worker thread is running
WorkerRunning == pc \notin {"off", "done"}

\* faulty variant: the thread is never seen alive
ThreadAlive_never(p) == FALSE

\* self.thread and self.thread.is_alive()
ThreadAlive(p) == p \notin {"off", "done"}

\* _poll while the thread is alive: root.after(200, self._poll)
PollAlive ==
    /\ polling
    /\ ThreadAlive(pc)
    /\ UNCHANGED vars

\* _poll once the thread has ended
PollEnded ==
    /\ polling
    /\ ~ThreadAlive(pc)
    /\ polling' = FALSE
    /\ shown' = IF bar.value = bar.maximum /\ bar.maximum > 0
                THEN Append(shown, "info: conversion complete") ELSE shown
    /\ bar' = [bar EXCEPT !.value = 0]
    /\ UNCHANGED <<auxVars, workerVars, queue>>

\* ------------------------------------------------------- specifications
WorkerNext ==
    \/ WorkerBegin \/ SkipNoAudio \/ MkdirFail \/ SkipExisting \/ CallConvert
    \/ HqAttemptOk \/ HqAttemptFail \/ SubRetryOk \/ SubRetryFail
    \/ SafeAttemptOk \/ SafeAttemptFail
    \/ ConvertReturned \/ ExceptConversion \/ ExceptGeneral
    \/ SwapCall \/ SwapRename1Ok \/ SwapRename1Fail \/ SwapRename2Ok \/ SwapRename2Fail
    \/ SwapRollback \/ SwapFinally
    \/ WorkerEnd

\* The worker thread alone: the posted callbacks stay queued.
Next == WorkerNext

Spec == Init /\ [][Next]_vars

\* The worker thread and the controller's main loop, interleaved.
GuiNext == WorkerNext \/ RunCallback \/ PollAlive \/ PollEnded

\* batches of at most MaxGuiFiles files; a folder beside a thousand backups is
\* left to the worker's own specification
GuiInit ==
    /\ Init
    /\ Len(files) <= MaxGuiFiles
    /\ (Len(files) > 1 => Cardinality(DOMAIN fs) < BackupLimit)

GuiSpec == GuiInit /\ [][GuiNext]_vars

\* ------------------------------------------------ the controller: _start
\* Runs of _start a session is followed for.
MaxStarts == 2

\* Longest batch of a session that is followed from before the first Start.
MaxStartFiles == 1

\* self.src.exists(): the chosen file, or the chosen folder "S"
SourceExists ==
    IF cfg.src_is_file THEN Exists(fs, FileCatalog[files[1]].path) ELSE "S" \in dirs

\* self.dst_base of _start: the source's folder when originals are replaced (or
\* the output goes beside the sources), else the folder named in the output field
DstBase == IF cfg.replace_original \/ cfg.same_folder THEN "S" ELSE "O"

\* the batch the next worker finds: the sources that are still there
RECURSIVE StillThere(_, _)
StillThere(batch, fsys) ==
    IF batch = <<>> THEN <<>>
    ELSE (IF Exists(fsys, FileCatalog[Head(batch)].path) THEN <<Head(batch)>> ELSE <<>>)
            \o StillThere(Tail(batch), fsys)

\* a numbered backup lies in the folder: find_audio_files does not pass it
\* over as it does <name>.bak, and the batch would not be one of FileCatalog
NumberedBackupThere ==
    \E q \in DOMAIN fs : q.name[Len(q.name)].k = BakTok(1).k /\ q.name[Len(q.name)].n > 0

\* the Start button is pressed.  While the button is disabled the press does
\* nothing; else _start runs: Busy, no valid source, output folder cannot be
\* made, or a new worker thread is started and _poll is armed.
StartRequest ==
    IF polling
    THEN /\ boot.controller
         /\ ctl' = [ctl EXCEPT !.dropped = @ \/ WorkerRunning]
         /\ UNCHANGED <<boot, media, cache, probe, tree, call, workerVars, guiVars>>
    ELSE /\ boot.controller
         /\ ctl.requests < MaxStarts
         /\ cfg.src_is_file \/ ~NumberedBackupThere
         /\ IF ThreadAlive(pc)
            THEN /\ shown' = Append(shown, "warning: busy")
                 /\ ctl' = [ctl EXCEPT !.requests = @ + 1]
                 /\ UNCHANGED <<boot, media, cache, probe, tree, call, workerVars,
                                queue, bar, polling>>
            ELSE IF ~SourceExists
            THEN /\ shown' = Append(shown, "error: no valid source")
                 /\ ctl' = [ctl EXCEPT !.requests = @ + 1]
                 /\ UNCHANGED <<boot, media, cache, probe, tree, call, workerVars,
                                queue, bar, polling>>
            ELSE \/ /\ DstBase \notin dirs
                    /\ shown' = Append(shown, "error: cannot create output folder")
                    /\ ctl' = [ctl EXCEPT !.requests = @ + 1]
                    /\ UNCHANGED <<boot, media, cache, probe, tree, call, workerVars,
                                   queue, bar, polling>>
                 \/ /\ dirs' = dirs \cup {DstBase}
                    /\ polling' = TRUE
                    /\ bar' = [bar EXCEPT !.value = 0]
                    /\ ctl' = [ctl EXCEPT !.requests = @ + 1, !.started = @ + 1,
                                          !.overlapped = @ \/ WorkerRunning]
                    /\ pc' = "begin"
                    /\ files' = (IF cfg.src_is_file THEN files ELSE StillThere(files, fs))
                    /\ idx' = 0 /\ job' = NoJob /\ attempts' = <<>> /\ exc' = NoExc
                    /\ swap' = NoSwap /\ errors_occurred' = FALSE /\ hist' = NoHist
                    /\ UNCHANGED <<boot, media, cache, probe, tree, call, cfg, fs, queue, shown>>

\* a session from before the first press of Start: no backup lies beside the
\* sources yet, and the output folder may not exist yet
StartInit ==
    /\ BatchInit
    /\ Len(files) <= MaxStartFiles
    /\ \A q \in DOMAIN fs : q.name[Len(q.name)].k # BakTok(1).k
    /\ \E made \in BOOLEAN :
          /\ (\E q \in DOMAIN fs : q.dir \in {"O", "O/sub"}) => made
          /\ dirs = {"S", "S/sub"} \cup {q.dir : q \in DOMAIN fs}
                        \cup (IF made THEN {"O"} ELSE {})
    /\ pc = "off"
    /\ polling = FALSE
    /\ ctl = NoCtl
    /\ boot = InMainloop

\* The worker thread, the Start button and _poll; the posted callbacks stay queued.
StartNext == WorkerNext \/ PollAlive \/ PollEnded \/ StartRequest

StartSpec == StartInit /\ [][StartNext]_vars


\* ------------------------------------------ main() and _resolve_ffmpeg
\* search_roots: the script's folder, or the bundle and the executable's
\* folder when the application is frozen
SearchRoots(b) == IF b.frozen THEN <<1, 2>> ELSE <<1>>

\* for root in search_roots: if both executables are files there: resolve,
\* break.  seen: the places looked at; won: the place that resolved, if any
RECURSIVE ScanRoots(_, _, _)
ScanRoots(kind, roots, has) ==
    IF roots = <<>> THEN [seen |-> <<>>, won |-> NoPlace]
    ELSE IF has[<<kind, Head(roots)>>] = "both"
    THEN [seen |-> << <<kind, Head(roots)>> >>, won |-> <<kind, Head(roots)>>]
    ELSE LET rest == ScanRoots(kind, Tail(roots), has)
         IN  [seen |-> << <<kind, Head(roots)>> >> \o rest.seen, won |-> rest.won]

\* faulty variant: the download is tried after the subdirectory scan
StageAfter_download_last(stage) ==
    CASE stage = "argument" -> "path"
      [] stage = "path" -> "vendors"
      [] stage = "vendors" -> "root"
      [] stage = "root" -> "sub"
      [] stage = "sub" -> "download"
      [] stage = "download" -> "verify"

\* the order of the stages in _resolve_ffmpeg
StageAfter(stage) ==
    CASE stage = "argument" -> "path"
      [] stage = "path" -> "vendors"
      [] stage = "vendors" -> "download"
      [] stage = "download" -> "root"
      [] stage = "root" -> "sub"
      [] stage = "sub" -> "verify"

\* the machines main() is started on: the platform, frozen or not, and what
\* lies in each place (the places under a second root only when frozen)
BootEnvs ==
    {e \in [nt : BOOLEAN, frozen : BOOLEAN,
            has : [Places -> {"absent", "both", "ffmpeg", "none"}]] :
        /\ \A q \in Places \ {ArgPlace} : e.has[q] # "absent"
        /\ \A q \in Places \ {ArgPlace, PathPlace, <<"vendors", 1>>} : e.has[q] # "ffmpeg"
        /\ ~e.frozen => \A q \in Places : q[2] = 2 => e.has[q] = "none"}

\* main(): args = _build_parser().parse_args()
Main ==
    /\ boot.step = "main"
    /\ \E t \in BOOLEAN : boot' = [boot EXCEPT !.step = "argument", !.test = t]
    /\ UNCHANGED <<workerVars, guiVars, ctl, media, cache, probe, tree, call>>

\* if ffmpeg_arg: ...   (_run_tests passes None)
ResolveArgument ==
    /\ boot.step = "argument"
    /\ boot' = IF ~boot.test /\ boot.has[ArgPlace] # "absent"
               THEN [boot EXCEPT !.step = StageAfter("argument"),
                                 !.consulted = Append(@, ArgPlace),
                                 !.from = IF boot.has[ArgPlace] = "both" THEN ArgPlace
                                          ELSE NoPlace]
               ELSE [boot EXCEPT !.step = StageAfter("argument")]
    /\ UNCHANGED <<workerVars, guiVars, ctl, media, cache, probe, tree, call>>

\* if not resolved_ffmpeg_path: shutil.which(...) for both
ResolvePath ==
    /\ boot.step = "path"
    /\ boot' = IF boot.from = NoPlace
               THEN [boot EXCEPT !.step = StageAfter("path"),
                                 !.consulted = Append(@, PathPlace),
                                 !.from = IF boot.has[PathPlace] = "both" THEN PathPlace
                                          ELSE NoPlace]
               ELSE [boot EXCEPT !.step = StageAfter("path")]
    /\ UNCHANGED <<workerVars, guiVars, ctl, media, cache, probe, tree, call>>

\* one of the three scans over search_roots (vendors/ffmpeg/bin, next to the
\* root, the ffmpeg* subdirectories), made when nothing is resolved yet
Scanned(b, kind) ==
    IF b.from = NoPlace
    THEN LET scan == ScanRoots(kind, SearchRoots(b), b.has)
         IN  [b EXCEPT !.step = StageAfter(kind),
                       !.consulted = @ \o scan.seen,
                       !.from = scan.won]
    ELSE [b EXCEPT !.step = StageAfter(kind)]

\* 1) ./vendors/ffmpeg/bin under each root
ResolveVendors ==
    /\ boot.step = "vendors"
    /\ boot' = Scanned(boot, "vendors")
    /\ UNCHANGED <<workerVars, guiVars, ctl, media, cache, probe, tree, call>>

\* 2) if not resolved_ffmpeg_path and os.name == "nt": _download_ffmpeg_windows(...)
ResolveDownload ==
    /\ boot.step = "download"
    /\ IF boot.from = NoPlace /\ boot.nt
       THEN \E ok \in BOOLEAN :
                boot' = [boot EXCEPT !.step = StageAfter("download"),
                                     !.consulted = Append(@, DownloadPlace),
                                     !.downloaded = ok,
                                     !.from = IF ok THEN DownloadPlace ELSE NoPlace]
       ELSE boot' = [boot EXCEPT !.step = StageAfter("download")]
    /\ UNCHANGED <<workerVars, guiVars, ctl, media, cache, probe, tree, call>>

\* 3) next to the script / executable root(s)
ResolveRoot ==
    /\ boot.step = "root"
    /\ boot' = Scanned(boot, "root")
    /\ UNCHANGED <<workerVars, guiVars, ctl, media, cache, probe, tree, call>>

\* 4) subdirectories named ffmpeg*
ResolveSubdir ==
    /\ boot.step = "sub"
    /\ boot' = Scanned(boot, "sub")
    /\ UNCHANGED <<workerVars, guiVars, ctl, media, cache, probe, tree, call>>

\* faulty variant: main() goes on to the window whatever _resolve_ffmpeg did
AfterVerify_goes_on(test, tools) == IF test THEN "tests" ELSE "gui"

\* where the run goes when _resolve_ffmpeg has returned or raised SystemExit
AfterVerify(test, tools) ==
    IF test THEN "tests" ELSE IF tools = "ok" THEN "gui" ELSE "failed"

\* shutil.which(_FFMPEG), shutil.which(_FFPROBE): sys.exit(1) unless both are
\* found and executable.  With nothing resolved the names "ffmpeg" and
\* "ffprobe" are looked up on the search path, which does not hold both.
Verify ==
    /\ boot.step = "verify"
    /\ \E executable \in BOOLEAN :
        /\ (boot.from = NoPlace => ~executable)
        /\ (boot.from = PathPlace => executable)
        /\ LET tools == IF executable THEN "ok" ELSE "SystemExit"
           IN  boot' = [boot EXCEPT !.tools = tools, !.step = AfterVerify(boot.test, tools)]
    /\ UNCHANGED <<workerVars, guiVars, ctl, media, cache, probe, tree, call>>

\* _run_tests: SystemExit is caught and logged, the tests run,
\* sys.exit(0 if rc.wasSuccessful() else 1)
RunTests ==
    /\ boot.step = "tests"
    /\ \E successful \in BOOLEAN :
        boot' = [boot EXCEPT !.step = "exit", !.exit = IF successful THEN 0 ELSE 1]
    /\ UNCHANGED <<workerVars, guiVars, ctl, media, cache, probe, tree, call>>

\* main(): except SystemExit: showerror or print; sys.exit(1)
ResolveFailed ==
    /\ boot.step = "failed"
    /\ boot' = [boot EXCEPT !.step = "exit", !.exit = 1]
    /\ UNCHANGED <<workerVars, guiVars, ctl, media, cache, probe, tree, call>>

\* main(): no tkinter: sys.exit(1); Tk() raises TclError: sys.exit(1); else
\* _ConverterGUI(root, args) and mainloop()
CreateGui ==
    /\ boot.step = "gui"
    /\ \E outcome \in {"no tkinter", "TclError", "window"} :
        boot' = IF outcome = "window"
                THEN [boot EXCEPT !.step = "mainloop", !.controller = TRUE]
                ELSE [boot EXCEPT !.step = "exit", !.exit = 1]
    /\ UNCHANGED <<workerVars, guiVars, ctl, media, cache, probe, tree, call>>

\* main() is started; a file to convert is chosen already
BootInit ==
    /\ BatchInit
    /\ cfg = [replace_original |-> FALSE, same_folder |-> FALSE, keep |-> FALSE,
              src_is_file |-> TRUE]
    /\ files = <<1>>
    /\ DOMAIN fs = {FileCatalog[1].path}
    /\ dirs = {"S", "S/sub", "O"}
    /\ pc = "off"
    /\ polling = FALSE
    /\ ctl = NoCtl
    /\ \E e \in BootEnvs :
        boot = [NoBoot EXCEPT !.step = "main", !.nt = e.nt, !.frozen = e.frozen,
                              !.has = e.has]

\* The run of main() up to the first thread the controller starts.
BootNext ==
    \/ Main \/ ResolveArgument \/ ResolvePath \/ ResolveVendors \/ ResolveDownload
    \/ ResolveRoot \/ ResolveSubdir \/ Verify \/ RunTests \/ ResolveFailed \/ CreateGui
    \/ StartRequest

BootSpec == BootInit /\ [][BootNext]_vars

\* ------------------------------------------- the prober: _probe_media_info
\* What ffprobe -print_format json -show_streams gives back through _popen_run:
\*   missing  the executable is not there (returncode = errno, stdout '')
\*   fail     a non-zero returncode
\*   empty    returncode 0 and nothing on stdout
\*   garbage  returncode 0 and text json.loads cannot read, or JSON that is
\*            not an object
\*   json     returncode 0 and a JSON object with the listed streams
\* A field of a stream is absent (none), a string of digits, some other text,
\* or text that passes str.isdigit() and makes int() raise.
FNone == [k |-> "none", n |-> 0]
FDigits(n) == [k |-> "digits", n |-> n]
FText == [k |-> "text", n |-> 0]
FRaises == [k |-> "raises", n |-> 0]

\* an audio stream with its sample_rate and bit_rate fields
AudioStream(sr, br) == [t |-> "audio", sr |-> sr, br |-> br, attached |-> 0]
\* a video stream; attached is disposition.attached_pic: 0, 1, or -1 for a
\* value int() cannot read
VideoStream(attached) == [t |-> "video", sr |-> FNone, br |-> FNone, attached |-> attached]
\* a subtitle or data stream
OtherStream == [t |-> "subtitle", sr |-> FNone, br |-> FNone, attached |-> 0]
\* an entry of "streams" that is not an object
BadEntry == [t |-> "bad", sr |-> FNone, br |-> FNone, attached |-> 0]

NoOutput(kind) == [kind |-> kind, streams |-> <<>>]
Json(streams) == [kind |-> "json", streams |-> streams]

StructOuts ==
    { NoOutput("missing"), NoOutput("fail"), NoOutput("empty"), NoOutput("garbage"),
      Json(<<>>),
      Json(<<AudioStream(FDigits(44100), FDigits(192000))>>),
      Json(<<AudioStream(FNone, FNone)>>),
      Json(<<AudioStream(FText, FDigits(128000))>>),
      Json(<<AudioStream(FRaises, FDigits(128000))>>),
      Json(<<AudioStream(FDigits(48000), FRaises)>>),
      Json(<<VideoStream(1), AudioStream(FDigits(48000), FNone)>>),
      Json(<<VideoStream(0), AudioStream(FDigits(44100), FDigits(128000)),
             AudioStream(FDigits(96000), FDigits(320000))>>),
      Json(<<AudioStream(FNone, FNone), BadEntry>>),
      Json(<<BadEntry, AudioStream(FDigits(44100), FNone)>>),
      Json(<<VideoStream(-1), OtherStream>>),
      Json(<<OtherStream, AudioStream(FText, FNone), VideoStream(1),
             AudioStream(FDigits(96000), FDigits(320000))>>),
      Json(<<VideoStream(1), VideoStream(0), AudioStream(FDigits(48000), FDigits(256000))>>) }

\* What the code reads in the stderr of ffmpeg -i: whether "Audio:" and
\* "Video:" occur, the first "<N> Hz" and the first "<N> kb/s" (None: no match).
FallbackOut(audio, video, hz, kbps) == [audio |-> audio, video |-> video, hz |-> hz, kbps |-> kbps]

\* the executable is not there ("Executable not found: ...") or prints
\* nothing about streams
NoInfo == FallbackOut(FALSE, FALSE, NoneInt, NoneInt)

FallbackOuts ==
    { NoInfo,
      FallbackOut(TRUE, FALSE, 44100, 192),
      FallbackOut(TRUE, TRUE, 48000, NoneInt),
      FallbackOut(TRUE, FALSE, NoneInt, NoneInt),
      FallbackOut(FALSE, TRUE, NoneInt, 1500) }

\* the locals of _probe_media_info at its start; raised: an exception left
\* the try block of method 1
ProbeStart ==
    [has_audio |-> FALSE, has_real_video |-> FALSE, has_attached_pic |-> FALSE,
     sample_rate |-> NoneInt, bit_rate |-> NoneInt, raised |-> FALSE]

\* the tuple _probe_media_info returns
ResultOf(st) ==
    [has_audio |-> st.has_audio, has_real_video |-> st.has_real_video,
     has_attached_pic |-> st.has_attached_pic,
     sample_rate |-> st.sample_rate, bit_rate |-> st.bit_rate]

\* one field of the first audio stream: recorded when it is digits
ReadField(st, name, v) ==
    IF st.raised THEN st
    ELSE IF v.k = "digits" THEN [st EXCEPT ![name] = v.n]
    ELSE IF v.k = "raises" THEN [st EXCEPT !.raised = TRUE]
    ELSE st

\* faulty variant: every audio stream is read, so that the last one counts
StreamStep_every_audio(s, st) ==
    IF s.t = "bad" THEN [st EXCEPT !.raised = TRUE]
    ELSE IF s.t = "audio"
    THEN ReadField(ReadField([st EXCEPT !.has_audio = TRUE], "sample_rate", s.sr),
                   "bit_rate", s.br)
    ELSE IF s.t = "video"
    THEN (IF s.attached = 1 THEN [st EXCEPT !.has_attached_pic = TRUE]
          ELSE [st EXCEPT !.has_real_video = TRUE])
    ELSE st

\* the body of the loop over the streams
StreamStep(s, st) ==
    IF s.t = "bad" THEN [st EXCEPT !.raised = TRUE]
    ELSE IF s.t = "audio" /\ ~st.has_audio
    THEN ReadField(ReadField([st EXCEPT !.has_audio = TRUE], "sample_rate", s.sr),
                   "bit_rate", s.br)
    ELSE IF s.t = "video"
    THEN (IF s.attached = 1 THEN [st EXCEPT !.has_attached_pic = TRUE]
          ELSE [st EXCEPT !.has_real_video = TRUE])
    ELSE st

RECURSIVE StreamLoop(_, _)
\* for stream in ffprobe_output.get("streams", []) or []: ..., left at the
\* first exception
StreamLoop(streams, st) ==
    IF streams = <<>> \/ st.raised THEN st
    ELSE StreamLoop(Tail(streams), StreamStep(Head(streams), st))

\* faulty variant: no sample rate is assumed
DefaultRate_none(has_audio, sample_rate) == sample_rate

\* if has_audio and sample_rate is None: sample_rate = 44100
DefaultRate(has_audio, sample_rate) ==
    IF has_audio /\ sample_rate = NoneInt THEN DefaultSampleRate ELSE sample_rate

\* method 2, entered with the locals as method 1 left them
FallbackMethod(st, out) ==
    LET has_audio == st.has_audio \/ out.audio
        sr == IF has_audio /\ out.hz # NoneInt THEN out.hz ELSE st.sample_rate
        br == IF has_audio /\ out.kbps # NoneInt THEN out.kbps * 1000 ELSE st.bit_rate
    IN  [has_audio |-> has_audio,
         has_real_video |-> st.has_real_video \/ out.video,
         has_attached_pic |-> st.has_attached_pic,
         sample_rate |-> DefaultRate(has_audio, sr),
         bit_rate |-> br]

\* _probe_media_info past the cache test, for a file of which ffprobe prints s
\* and ffmpeg prints f: the result, and the tools that were run
RunProbers(s, f) ==
    IF s.kind = "json" /\ ~StreamLoop(s.streams, ProbeStart).raised
    THEN LET st == StreamLoop(s.streams, ProbeStart)
         IN  [res |-> ResultOf([st EXCEPT !.sample_rate = DefaultRate(st.has_audio, @)]),
              ran |-> {"ffprobe"}]
    ELSE LET st == IF s.kind = "json" THEN StreamLoop(s.streams, ProbeStart) ELSE ProbeStart
         IN  [res |-> FallbackMethod(st, f), ran |-> {"ffprobe", "ffmpeg"}]

\* faulty variant: the cache is never consulted
CacheHit_never(c, p) == FALSE

\* if p in _MEDIA_INFO_CACHE
CacheHit(c, p) == p \in DOMAIN c

\* dict item assignment
DictSet(d, key, v) == [q \in DOMAIN d \cup {key} |-> IF q = key THEN v ELSE d[q]]

\* what one call _probe_media_info(p) returns and runs
ProbeOutcome(c, m, p) ==
    IF CacheHit(c, p) THEN [res |-> c[p], ran |-> {}] ELSE RunProbers(m[p].s, m[p].f)

\* the record of one call more, of path p with outcome o
Logged(pr, m, p, o) ==
    [pr EXCEPT !.n = @ + 1,
               !.last = <<[path |-> p, s |-> m[p].s, f |-> m[p].f, res |-> o.res, ran |-> o.ran]>>,
               !.asked = DictSet(@, p, DictGet(@, p, 0) + 1),
               !.ran = DictSet(@, p, DictGet(@, p, 0) + (IF o.ran = {} THEN 0 ELSE 1)),
               !.returned = DictSet(@, p, DictGet(@, p, {}) \cup {o.res})]

\* Most probe calls of one run.
MaxProbes == 3

\* Most times a probed file, or the tools, change during one run.
MaxMediaChanges == 1

\* the files probed, and what the tools print of them
ProbePaths == {FileCatalog[1].path, FileCatalog[2].path}

MediaOf(s, f) == [s |-> s, f |-> f]

\* what the second file, or a file that changed, may look like to the tools
MediaSamples ==
    { MediaOf(Json(<<AudioStream(FDigits(44100), FDigits(192000))>>), NoInfo),
      MediaOf(NoOutput("fail"), FallbackOut(TRUE, TRUE, 48000, NoneInt)),
      MediaOf(NoOutput("missing"), NoInfo),
      MediaOf(Json(<<VideoStream(0), VideoStream(1), AudioStream(FDigits(48000), FNone)>>),
              NoInfo) }

ProbeInit ==
    /\ WorkerIdle
    /\ call = NoCall
    /\ tree = NoTree
    /\ cache = EmptyMap
    /\ probe = NoProbe
    /\ \E s \in StructOuts, f \in FallbackOuts, m2 \in MediaSamples :
         media = (FileCatalog[1].path :> MediaOf(s, f)) @@ (FileCatalog[2].path :> m2)

\* one call of _probe_media_info(p)
ProbeCall ==
    /\ probe.n < MaxProbes
    /\ \E p \in ProbePaths :
         LET o == ProbeOutcome(cache, media, p)
         IN  /\ cache' = IF CacheHit(cache, p) THEN cache ELSE DictSet(cache, p, o.res)
             /\ probe' = Logged(probe, media, p, o)
    /\ UNCHANGED <<workerVars, guiVars, ctl, boot, media, tree, call>>

\* between two calls a file is rewritten, or a tool comes or goes
MediaChange ==
    /\ probe.n < MaxProbes
    /\ probe.changes < MaxMediaChanges
    /\ \E p \in ProbePaths, m \in MediaSamples :
         /\ m # media[p]
         /\ media' = [media EXCEPT ![p] = m]
    /\ probe' = [probe EXCEPT !.changes = @ + 1]
    /\ UNCHANGED <<workerVars, guiVars, ctl, boot, cache, tree, call>>

\* the worker's call convert_to_432(f_path, dst_file, ...) with what the probe
\* of f_path returned, outside replace mode: the commands of the ladder
ProbeBuild ==
    /\ probe.n > 0
    /\ LET got == probe.last[1]
           hrv == got.res.has_real_video
           hap == got.res.has_attached_pic
           br == got.res.bit_rate
           sr == IF got.res.sample_rate # NoneInt /\ got.res.sample_rate # 0
                 THEN got.res.sample_rate ELSE DefaultSampleRate
           ext == Lower(_choose_output_ext(ExtText(Suffix(got.path.name)), hrv))
       IN  /\ got.res.has_audio
           /\ call' = [NoCall EXCEPT !.fn = "convert_to_432", !.ext = ext,
                                     !.has_real_video = hrv, !.has_attached_pic = hap,
                                     !.orig_bps = br, !.original_sr = sr,
                                     !.target_sr = TargetSampleRate,
                                     !.chain = Chain(sr, TargetSampleRate),
                                     !.cmds = << [tier |-> "hq", cmd |-> HqCmd(ext, hrv, hap, br)],
                                                 [tier |-> "safe", cmd |-> SafeCmd(ext, hrv, hap, br)] >>]
    /\ UNCHANGED <<workerVars, guiVars, ctl, boot, media, cache, probe, tree>>

ProbeNext == ProbeCall \/ MediaChange \/ ProbeBuild

ProbeSpec == ProbeInit /\ [][ProbeNext]_vars

\* ------------------------------------------ discovery: find_audio_files
\* What may lie in and below the chosen folder "S".
FolderCatalog ==
    << [path |-> [dir |-> "S", name |-> <<T("a"), T(".mp3")>>], is_file |-> TRUE],
       [path |-> [dir |-> "S", name |-> <<T("B"), T(".FLAC")>>], is_file |-> TRUE],
       [path |-> [dir |-> "S", name |-> <<T("g"), T(".wma")>>], is_file |-> TRUE],
       [path |-> [dir |-> "S", name |-> <<T("n"), T(".dat")>>], is_file |-> TRUE],
       [path |-> [dir |-> "S", name |-> <<T("notes"), T(".txt")>>], is_file |-> TRUE],
       [path |-> [dir |-> "S", name |-> <<T("e"), T("_432Hz"), T(".mp3")>>], is_file |-> TRUE],
       [path |-> [dir |-> "S/sub", name |-> <<T("c"), T(".mov")>>], is_file |-> TRUE],
       [path |-> [dir |-> "S", name |-> <<T("cover"), T(".JPG")>>], is_file |-> TRUE],
       [path |-> [dir |-> "S", name |-> <<T("~BitTorrentPartFile_"), T("x"), T(".dat")>>],
        is_file |-> TRUE],
       [path |-> [dir |-> "S", name |-> <<T("a"), T(TMP_MARK), T(".mp3")>>], is_file |-> TRUE],
       [path |-> [dir |-> "S", name |-> <<T("a"), T(OUT_SUFFIX), T(".mp3")>>], is_file |-> TRUE],
       [path |-> [dir |-> "S", name |-> <<T("a"), T(".mp3"), BakTok(0)>>], is_file |-> TRUE],
       [path |-> [dir |-> "S", name |-> <<T("a"), T(".mp3"), BakTok(1)>>], is_file |-> TRUE],
       [path |-> [dir |-> "S/Out_432Hz", name |-> <<T("d"), T(".mp3")>>], is_file |-> TRUE],
       [path |-> [dir |-> "S", name |-> <<T("sub")>>], is_file |-> FALSE],
       [path |-> [dir |-> "S", name |-> <<T("Out"), T("_432Hz")>>], is_file |-> FALSE] >>

\* the first entries of FolderCatalog: the files whose content varies from
\* run to run; the other files always hold audio
VaryingEntries == 1..7

\* the folders tried: everything above, and a folder of five files
FolderSamples == {DOMAIN FolderCatalog, 1..5}

\* the names of the directories from the folder down to dir
DirParts ==
    ("S" :> << <<T("S")>> >>) @@
    ("S/sub" :> << <<T("S")>>, <<T("sub")>> >>) @@
    ("S/Out_432Hz" :> << <<T("S")>>, <<T("Out"), T("_432Hz")>> >>)

\* str.endswith(text) on a name
EndsWith(name, text) == name # <<>> /\ name[Len(name)] = T(text)

\* any(str(part).endswith("_432Hz") for part in p.parts): the parts are those
\* of the chosen folder's own path, the directories below it, and the name
AnyPartEnds432Hz(tr, p) ==
    \/ tr.root_432
    \/ \E i \in DOMAIN DirParts[p.dir] : EndsWith(DirParts[p.dir][i], "_432Hz")
    \/ EndsWith(p.name, "_432Hz")

\* p.name.startswith("~BitTorrentPartFile_")
IsPartFile(p) == p.name[1] = T("~BitTorrentPartFile_")

\* stem_l.endswith("_432") or stem_l.endswith("_432hz") or stem_l.endswith("_432_hz")
StemIsSuffixed(p) ==
    LET stem == Stem(p.name)
    IN  stem # <<>> /\ Lower(stem[Len(stem)].k) \in {"_432", "_432hz", "_432_hz"}

\* faulty variant: the extension is compared as written
IgnoredExt_as_written(p) == ExtText(Suffix(p.name)) \in IGNORE_EXTS

\* ext = p.suffix.lower(); ext in IGNORE_EXTS
IgnoredExt(p) == Lower(ExtText(Suffix(p.name))) \in IGNORE_EXTS

\* folder.glob("**/*" if recursive else "*")
Globbed(tr) == {e \in tr.entries : tr.recursive \/ e.path.dir = "S"}

\* the entries on which the loop reaches _probe_media_info
Probed(tr) ==
    {e \in Globbed(tr) :
        /\ e.is_file
        /\ ~AnyPartEnds432Hz(tr, e.path)
        /\ ~IsPartFile(e.path)
        /\ ~HasTmpMark(e.path)
        /\ ~StemIsSuffixed(e.path)
        /\ ~IgnoredExt(e.path)}

AudioMedia == MediaOf(Json(<<AudioStream(FDigits(44100), FDigits(192000))>>), NoInfo)
NoMedia == MediaOf(NoOutput("fail"), NoInfo)

FindInit ==
    /\ WorkerIdle
    /\ call = NoCall
    /\ cache = EmptyMap
    /\ probe = NoProbe
    /\ \E sample \in FolderSamples, r \in BOOLEAN, o \in BOOLEAN :
         tree = [entries |-> {FolderCatalog[i] : i \in sample}, recursive |-> r, root_432 |-> o]
    /\ \E silent \in SUBSET VaryingEntries :
         media = [p \in {e.path : e \in {x \in tree.entries : x.is_file}} |->
                    IF \E i \in silent : FolderCatalog[i].path = p THEN NoMedia ELSE AudioMedia]

\* files = find_audio_files(self.src, self.rec.get())
FindAudioFiles ==
    /\ probe.finds = 0
    /\ LET paths == {e.path : e \in Probed(tree)}
           out == [p \in paths |-> ProbeOutcome(cache, media, p)]
       IN  /\ cache' = [p \in DOMAIN cache \cup paths |->
                          IF p \in DOMAIN cache THEN cache[p] ELSE out[p].res]
           /\ probe' = [probe EXCEPT
                  !.n = @ + Cardinality(paths),
                  !.finds = 1,
                  !.found = {p \in paths : out[p].res.has_audio},
                  !.byfind = paths,
                  !.asked = [p \in DOMAIN @ \cup paths |->
                                DictGet(@, p, 0) + (IF p \in paths THEN 1 ELSE 0)],
                  !.ran = [p \in DOMAIN @ \cup paths |->
                                DictGet(@, p, 0)
                                    + (IF p \in paths /\ out[p].ran # {} THEN 1 ELSE 0)],
                  !.returned = [p \in DOMAIN @ \cup paths |->
                                DictGet(@, p, {})
                                    \cup (IF p \in paths THEN {out[p].res} ELSE {})]]
    /\ UNCHANGED <<workerVars, guiVars, ctl, boot, media, tree, call>>

\* the worker's own _probe_media_info(f_path) on a file of the batch
WorkerProbe ==
    /\ probe.finds = 1
    /\ \E p \in probe.found :
         /\ probe.asked[p] = 1
         /\ LET o == ProbeOutcome(cache, media, p)
            IN  /\ cache' = IF CacheHit(cache, p) THEN cache ELSE DictSet(cache, p, o.res)
                /\ probe' = Logged(probe, media, p, o)
    /\ UNCHANGED <<workerVars, guiVars, ctl, boot, media, tree, call>>

FindNext == FindAudioFiles \/ WorkerProbe

FindSpec == FindInit /\ [][FindNext]_vars

\* ---------------------------------------------------- the codec policy
\* The functions of the codec policy applied to inputs drawn from samples.

\* the keys of the codec tables written in capital letters
UpperKeys == {u \in DOMAIN LowerOf : LowerOf[u] \in DOMAIN HQ_CODEC}

\* source extensions: the table keys in both letter cases, extensions outside
\* the tables, and no extension
PolicyExts == DOMAIN HQ_CODEC \cup UpperKeys \cup {"", ".dat", ".3gp", ".ogv"}

\* original bit rates in bit/s, None included
BpsSamples ==
    {NoneInt, 0, 999, 96000, 128500, 191999, 192000, 256000, 320000, 320001, 512000, 640000}

\* option lists that are not in the tables: a target in bit/s, "-b:a" with no
\* value, "-b:a" twice, no "-b:a", a value that is not a number
CustomOpts ==
    { <<T("-c:a"), T("aac"), T("-b:a"), D(320000)>>,
      <<T("-c:a"), T("aac"), T("-b:a")>>,
      <<T("-b:a"), K(320), T("-b:a"), K(128)>>,
      <<T("-c:a"), T("copy")>>,
      <<T("-b:a"), T("high")>> }

\* what the worker passes to convert_to_432: the probed rate (44100 when the
\* probe gave none), the target rate, the probed bit rate
OriginalRates == {8000, 44100, 48000, 192000}
TargetRates == {44100, 48000}
EngineBps == {NoneInt, 128000, 640000}

\* ------------------------------------------------ the codec tables as objects
\* HQ_CODEC and SAFE_CODEC are module-level dicts whose values are lists: what
\* _codec_for_ext hands out is the table's own list object unless it falls
\* back to a default it has just built.
MaxConversions == 3

StaticTables == [hq |-> HQ_CODEC, safe |-> SAFE_CODEC]

\* a list object: one of a table's lists, or a list made during the call
TableList(tier, ext) == [kind |-> "table", tier |-> tier, ext |-> ext]

FreshList(v) == [kind |-> "fresh", value |-> v]

Deref(tables, ref) ==
    IF ref.kind = "table" THEN tables[ref.tier][ref.ext] ELSE ref.value

\* dict.get(key, default) as an object
DictGetObject(tables, tier, key, default) ==
    IF key \in DOMAIN tables[tier] THEN TableList(tier, key) ELSE default

\* the object _codec_for_ext returns, on the tables as they are now
CodecObject(tables, ext0, safe) ==
    LET ext == Lower(ext0)
        default_codec ==
            IF ext \in {".flac", ".wav"}
            THEN DictGetObject(tables, "safe", ext, FreshList(<<T("-c:a"), T("copy")>>))
            ELSE FreshList(<<T("-c:a"), T("aac"), T("-b:a"), K(320)>>)
    IN  DictGetObject(tables, IF safe THEN "safe" ELSE "hq", ext, default_codec)

\* faulty variant: adjusted_options = codec_options, the same object
AdjustedOptions_same_object(tables, codec_options) == codec_options

\* adjusted_options = list(codec_options): a new list with the same items
AdjustedOptions(tables, codec_options) == FreshList(Deref(tables, codec_options))

\* an assignment to an item of a list object: the tables afterwards
Store(tables, ref, v) ==
    IF ref.kind = "table"
    THEN [tables |-> [tables EXCEPT ![ref.tier][ref.ext] = v], ref |-> ref]
    ELSE [tables |-> tables, ref |-> FreshList(v)]

\* _adjust_bitrate_in_options on objects: the list returned and the tables
\* after the item assignment adjusted_options[b_a_idx + 1] = ...
AdjustObject(tables, codec_options, orig_bps) ==
    IF orig_bps = NoneInt
    THEN [tables |-> tables, ref |-> codec_options]
    ELSE LET adjusted_options == AdjustedOptions(tables, codec_options)
         IN  Store(tables, adjusted_options,
                   _adjust_bitrate_in_options(Deref(tables, adjusted_options), orig_bps))

\* one convert_to_432 call as far as the option lists go: the HQ options, and
\* the safe options when the HQ attempt fails (the command lists are new lists
\* built with +)
ConvertOnTables ==
    /\ call.fn \in {"tables", "convert_to_432 on tables"}
    /\ call.runs < MaxConversions
    /\ \E e \in DOMAIN HQ_CODEC \cup {".mkv", ".dat"}, o \in EngineBps, hq_ok \in BOOLEAN :
         LET hq == AdjustObject(call.tables, CodecObject(call.tables, e, FALSE), o)
             last == IF hq_ok THEN hq
                     ELSE AdjustObject(hq.tables, CodecObject(hq.tables, e, TRUE), o)
         IN  call' = [call EXCEPT !.fn = "convert_to_432 on tables",
                                  !.tables = last.tables, !.runs = @ + 1,
                                  !.ext = e, !.orig_bps = o, !.safe = ~hq_ok,
                                  !.adjusted = Deref(last.tables, last.ref)]
    /\ UNCHANGED <<workerVars, guiVars, ctl, boot, media, cache, probe, tree>>

\* --------------------------------------------------- destinations of a batch
\* sources that may lie in one chosen folder "S": a stem, an extension and
\* whether the probe finds real video
SourceSamples ==
    {[path |-> [dir |-> d, name |-> <<T(st), T(e)>>], has_real_video |-> v] :
        d \in {"S", "S/sub"}, st \in {"a", "b"}, e \in {".mp3", ".wma", ".mp4", ".xyz"},
        v \in BOOLEAN}

\* the settings of an output mode
ModeCfg(mode) ==
    [replace_original |-> mode = "replace", same_folder |-> mode = "same folder",
     keep |-> FALSE, src_is_file |-> FALSE]

\* dst_file of two files of one batch, as the worker computes it for each
BatchDestinations ==
    /\ call.fn = "batch"
    /\ call' = [call EXCEPT !.fn = "dst_file",
                            !.dsts = <<DstFile(ModeCfg(call.mode), call.pair[1]),
                                       DstFile(ModeCfg(call.mode), call.pair[2])>>]
    /\ UNCHANGED <<workerVars, guiVars, ctl, boot, media, cache, probe, tree>>

\* ------------------------------------------------------- dropped payloads
\* A payload is a string, kept as the sequence of its pieces: a blank, a line
\* break, a brace, or a word ("a", "b") without any of these.
MaxDropLen == 5

DropPieces == {" ", "\n", "{", "}", "a", "b"}

IsSpace(c) == c \in {" ", "\n"}

\* the strings that name something there is on disk: "a" and "a a"
ExistingNames == {<<"a">>, <<"a", " ", "a">>}

DropPayloads == UNION {[1..n -> DropPieces] : n \in 0..MaxDropLen}

RECURSIVE LStrip(_)
LStrip(str) ==
    IF str # <<>> /\ IsSpace(Head(str)) THEN LStrip(Tail(str)) ELSE str

RECURSIVE RStrip(_)
RStrip(str) ==
    IF str # <<>> /\ IsSpace(str[Len(str)]) THEN RStrip(SubSeq(str, 1, Len(str) - 1)) ELSE str

\* str.strip()
Strip(str) == RStrip(LStrip(str))

\* faulty variant: every pair of enclosing braces is taken off
RECURSIVE Unbraced_every_pair(_)
Unbraced_every_pair(str) ==
    IF Len(str) > 1 /\ str[1] = "{" /\ str[Len(str)] = "}"
    THEN Unbraced_every_pair(Strip(SubSeq(str, 2, Len(str) - 1)))
    ELSE str

\* if s.startswith("{") and s.endswith("}") and len(s) > 1: s = s[1:-1].strip()
Unbraced(str) ==
    IF Len(str) > 1 /\ str[1] = "{" /\ str[Len(str)] = "}"
    THEN Strip(SubSeq(str, 2, Len(str) - 1))
    ELSE str

\* s.split('\n')[0]
RECURSIVE FirstLine(_)
FirstLine(str) ==
    IF str = <<>> \/ Head(str) = "\n" THEN <<>>
    ELSE <<Head(str)>> \o FirstLine(Tail(str))

NoPath == [found |-> FALSE, path |-> <<>>]

\* Path(s).exists(); Path("") is the current directory
PathExists(str) == str = <<>> \/ str \in ExistingNames

_parse_drop_data(data) ==
    IF data = <<>> THEN NoPath
    ELSE LET s1 == Unbraced(Strip(data))
         IN  IF s1 = <<>> THEN NoPath
             ELSE LET s2 == IF \E i \in 1..Len(s1) : s1[i] = "\n"
                            THEN Strip(FirstLine(s1)) ELSE s1
                  IN  IF ~PathExists(s2) THEN NoPath
                      ELSE [found |-> TRUE, path |-> s2]

PolicyInit ==
    /\ WorkerIdle
    /\ ProberIdle
    /\ \/ \E e \in PolicyExts, v \in BOOLEAN, sf \in BOOLEAN, o \in BpsSamples, c \in CustomOpts :
            call = [NoCall EXCEPT !.fn = "input", !.ext = e, !.has_real_video = v, !.safe = sf,
                                  !.orig_bps = o, !.opts = c]
       \/ \E e \in PolicyExts, v \in BOOLEAN, pic \in BOOLEAN, o \in EngineBps,
             sr \in OriginalRates, tsr \in TargetRates, d \in HqDiags :
            call = [NoCall EXCEPT !.fn = "engine input", !.ext = e, !.has_real_video = v,
                                  !.has_attached_pic = pic, !.orig_bps = o,
                                  !.original_sr = sr, !.target_sr = tsr, !.hq_stderr = d]
       \/ \E d \in RawDiags :
            call = [NoCall EXCEPT !.fn = "diagnostic", !.hq_stderr = d]
       \/ \E d \in DropPayloads :
            call = [NoCall EXCEPT !.fn = "drop", !.data = d]
       \/ \E m \in {"replace", "same folder", "separate tree"}, f, g \in SourceSamples :
            /\ f.path # g.path
            /\ call = [NoCall EXCEPT !.fn = "batch", !.mode = m, !.pair = <<f, g>>]
       \/ call = [NoCall EXCEPT !.fn = "tables", !.tables = StaticTables]

\* path = _parse_drop_data(event.data)
ParseDropData ==
    /\ call.fn = "drop"
    /\ call' = [call EXCEPT !.fn = "_parse_drop_data",
                            !.dropped = _parse_drop_data(call.data)]
    /\ UNCHANGED <<workerVars, guiVars, ctl, boot, media, cache, probe, tree>>

\* ext_out = _choose_output_ext(f_path.suffix, has_real_video)
ChooseOutputExt ==
    /\ call.fn = "input"
    /\ call' = [call EXCEPT !.fn = "_choose_output_ext",
                            !.ext_out = _choose_output_ext(call.ext, call.has_real_video)]
    /\ UNCHANGED <<workerVars, guiVars, ctl, boot, media, cache, probe, tree>>

\* _codec_for_ext(ext, safe=...)
CodecForExt ==
    /\ call.fn = "input"
    /\ call' = [call EXCEPT !.fn = "_codec_for_ext",
                            !.opts = _codec_for_ext(call.ext, call.safe)]
    /\ UNCHANGED <<workerVars, guiVars, ctl, boot, media, cache, probe, tree>>

\* _adjust_bitrate_in_options(options, original_bitrate_bps), on a list of the
\* tables or on a list written by hand
AdjustBitrate ==
    /\ call.fn \in {"input", "_codec_for_ext"}
    /\ call' = [call EXCEPT !.fn = "_adjust_bitrate_in_options",
                            !.adjusted = _adjust_bitrate_in_options(call.opts, call.orig_bps)]
    /\ UNCHANGED <<workerVars, guiVars, ctl, boot, media, cache, probe, tree>>

\* convert_to_432 as far as the command lists go: the filter chain and the
\* command of every rung the ladder comes to when each attempt fails
ConvertBuild ==
    /\ call.fn = "engine input"
    /\ LET ext == Lower(call.ext)
           hrv == call.has_real_video
           hap == call.has_attached_pic
           br == call.orig_bps
           hq == <<[tier |-> "hq", cmd |-> HqCmd(ext, hrv, hap, br)]>>
           sub == IF SubtitleFallbackApplies(ext, hrv, call.hq_stderr)
                  THEN <<[tier |-> "sub", cmd |-> HqSubCmd(ext, hrv, hap, br)]>>
                  ELSE <<>>
           safe == <<[tier |-> "safe", cmd |-> SafeCmd(ext, hrv, hap, br)]>>
       IN  call' = [call EXCEPT !.fn = "convert_to_432",
                                !.chain = Chain(call.original_sr, call.target_sr),
                                !.cmds = hq \o sub \o safe]
    /\ UNCHANGED <<workerVars, guiVars, ctl, boot, media, cache, probe, tree>>

\* hq_stderr_cleaned = _clean_ffmpeg_err(proc.stderr)
CleanDiagnostic ==
    /\ call.fn = "diagnostic"
    /\ call' = [call EXCEPT !.fn = "_clean_ffmpeg_err",
                            !.cleaned = _clean_ffmpeg_err(call.hq_stderr)]
    /\ UNCHANGED <<workerVars, guiVars, ctl, boot, media, cache, probe, tree>>

PolicyNext ==
    \/ ChooseOutputExt \/ CodecForExt \/ AdjustBitrate \/ ConvertBuild
    \/ CleanDiagnostic \/ ParseDropData \/ BatchDestinations \/ ConvertOnTables

PolicySpec == PolicyInit /\ [][PolicyNext]_vars


------------------------------------------------------------------------------
\* ------------------------------------------------------------- properties

Original == job.f_path
Candidate == job.dst_file

\* p is <name of q>.bak or <name of q>.bak<i>
IsBackupOf(p, q) ==
    /\ p.dir = q.dir
    /\ Len(p.name) = Len(q.name) + 1
    /\ SubSeq(p.name, 1, Len(q.name)) = q.name
    /\ p.name[Len(p.name)].k = ".bak"

IsBackup(p) == Len(p.name) > 1 /\ p.name[Len(p.name)].k = ".bak"

\* _replace_original_with_backup has just returned without raising
SwapReturned == pc = "finally" /\ exc = NoExc

\* _replace_original_with_backup has just raised
SwapRaised == pc = "finally" /\ exc # NoExc

\* C1: after a swap that returns without raising, the original path holds the
\* content the candidate had before the call, the candidate path no longer
\* exists, and exactly one path that did not exist before the call exists now:
\* a backup of the original holding the content the original had before the call.
C1_SwapRoundTrip ==
    SwapReturned =>
        /\ Exists(swap.pre, Original) /\ Exists(swap.pre, Candidate)
        /\ Exists(fs, Original) /\ fs[Original] = swap.pre[Candidate]
        /\ ~Exists(fs, Candidate)
        /\ \E b \in DOMAIN fs :
            /\ DOMAIN fs \ DOMAIN swap.pre = {b}
            /\ IsBackupOf(b, Original)
            /\ fs[b] = swap.pre[Original]

\* a swap returned where <name>.bak was already taken by an earlier swap
C1_Witness ==
    SwapReturned /\ Exists(swap.pre, BackupName(Original, 0)) /\ fs[Original].k = "conv"

\* the swap is running or has just ended, with a backup path chosen
InSwap == pc \in {"swap_s1", "swap_s2", "swap_rb", "finally"} /\ swap # NoSwap

\* the content the original had before the call is at the original path or at
\* the chosen backup path
OriginalContentKept ==
    \/ Exists(fs, Original) /\ fs[Original] = swap.pre[Original]
    \/ Exists(fs, swap.backup) /\ fs[swap.backup] = swap.pre[Original]

\* C2 as stated: during a swap with failures injected at every rename, the
\* original's content is always at the original or the backup path, and once the
\* candidate-to-original rename has failed the rollback leaves the original path
\* existing again.
C2_RollbackAlwaysRestores ==
    InSwap =>
        /\ OriginalContentKept
        /\ (SwapRaised /\ swap.trigger = "candidate->original" => Exists(fs, Original))

\* C2 as amended: the original's content is always at the original or the backup
\* path; once the candidate-to-original rename has failed, the original path
\* exists again with its content unless the rollback rename itself failed, and
\* then the content is at the backup path.
C2_OriginalNeverLost ==
    InSwap =>
        /\ OriginalContentKept
        /\ (SwapRaised /\ swap.trigger = "candidate->original" =>
                IF swap.rollback = "failed"
                THEN ~Exists(fs, Original) /\ fs[swap.backup] = swap.pre[Original]
                ELSE Exists(fs, Original) /\ fs[Original] = swap.pre[Original])

\* the second rename failed and the rollback put the original back
C2_Witness ==
    SwapRaised /\ swap.trigger = "candidate->original" /\ swap.rollback = "done"
        /\ Exists(fs, Original) /\ ~Exists(fs, swap.backup)

\* C3: when a rename of the swap fails the call ends by raising that triggering
\* error, whether the rollback was not needed, succeeded or failed; and the call
\* never returns normally after a failed rename.
C3_TriggerReRaised ==
    /\ (pc = "finally" /\ swap.trigger # "none" =>
            exc.type = "OSError" /\ exc.origin = swap.trigger)
    /\ (SwapReturned => swap.trigger = "none" /\ swap.rollback = "none")
    /\ (pc = "swap_rb" => swap.trigger # "none" /\ ENABLED SwapRollback)

\* the rollback rename itself failed, and the swap has raised
C3_Witness == SwapRaised /\ swap.rollback = "failed"

\* C4: no step of the swap or of the driver's cleanup deletes or overwrites a
\* backup file: every backup that exists (left by an earlier swap, or the new
\* one of a swap whose renames are done) exists with the same content in the
\* next state. The one backup that may go is the one the running swap has just
\* made, which its rollback renames back to the original.
C4_BackupsKept ==
    [][\A p \in DOMAIN fs :
          IsBackup(p) /\ ~(pc = "swap_rb" /\ p = swap.backup)
              => p \in DOMAIN fs' /\ fs'[p] = fs[p]]_vars

\* the run ended after a successful swap beside two older backups
C4_Witness ==
    /\ pc = "done"
    /\ \E j \in DOMAIN files :
        LET p == FileCatalog[files[j]].path
        IN  /\ Exists(fs, BackupName(p, 0)) /\ fs[BackupName(p, 0)].k = "old"
            /\ Exists(fs, BackupName(p, 1)) /\ fs[BackupName(p, 1)].k = "old"
            /\ Exists(fs, BackupName(p, 2)) /\ fs[BackupName(p, 2)] = Content("orig", j)
            /\ Exists(fs, p) /\ fs[p] = Content("conv", j)

Tiers == [i \in DOMAIN attempts |-> attempts[i].tier]

\* convert_to_432 has just returned / has just raised
ConvertEnded == pc \in {"conv_ret", "except_cpe"}

ForcesMovText(cmd1, cmd2) ==
    \E n \in 0..Len(cmd1) :
        cmd2 = SubSeq(cmd1, 1, n) \o <<T("-c:s"), T("mov_text")>>
                   \o SubSeq(cmd1, n + 1, Len(cmd1))

\* the second invocation, when there is one or the call has ended, is the
\* subtitle retry exactly when `cond` holds of the failed first one
SubRetryExactlyWhen(cond) ==
    /\ (Len(attempts) >= 2 \/ pc \in {"sub", "safe", "except_cpe"}) =>
            ((pc = "sub" \/ (Len(attempts) >= 2 /\ attempts[2].tier = "sub")) <=> cond)
    /\ \A i \in DOMAIN attempts :
            attempts[i].tier = "sub" =>
                i = 2 /\ attempts[1].rc # 0 /\ ForcesMovText(attempts[1].cmd, attempts[i].cmd)

C8_EveryFileVisitedOnce ==
    /\ hist.visited = SubSeq(files, 1, Len(hist.visited))
    /\ (pc = "loop" => Len(hist.visited) = idx - 1)
    /\ (pc \notin {"begin", "loop", "done"} => Len(hist.visited) = idx)
    /\ (pc = "done" => hist.visited = files)
    /\ (pc # "done" => ENABLED WorkerNext)

\* the run ended with every file visited although the first one had an error
C8_Witness ==
    /\ pc = "done" /\ Len(files) >= 2 /\ hist.visited = files
    /\ 1 \in hist.failed /\ errors_occurred

\* C9: a run in which a per-file error occurred never also reports the plain
\* "conversion complete" status.
C9_NoCompleteAfterErrors ==
    errors_occurred =>
        \A i \in DOMAIN shown : shown[i] # "info: conversion complete"

SwapRunning == pc \in {"swap_call", "swap_s1", "swap_s2", "swap_rb", "finally"}

\* C10: the swap is invoked for a file only in replace-in-place mode and only
\* after convert_to_432 returned for that file; a file whose conversion failed
\* is never swapped and stays at its path with its content.
C10_SwapOnlyAfterSuccess ==
    /\ hist.swapped \subseteq hist.converted
    /\ (hist.swapped # {} \/ SwapRunning => cfg.replace_original)
    /\ (SwapRunning => idx \in hist.converted)
    /\ hist.converted \cap hist.failed = {}
    /\ \A i \in hist.failed :
        LET p == FileCatalog[files[i]].path
        IN  Exists(fs, p) /\ fs[p] = Content("orig", i)

\* a replace-in-place run ended with one file swapped and another one failed
C10_Witness ==
    pc = "done" /\ cfg.replace_original /\ hist.swapped # {} /\ hist.failed # {}


\* ------------------------------------------------------------ the prober
\* the last call of _probe_media_info
LastProbe == probe.last[1]

\* a probe result that says audio carries a sample rate
RateKnown(res) == res.has_audio => res.sample_rate # NoneInt

\* C11: every result _probe_media_info returns (from method 1, from method 2,
\* also when method 2 starts from what method 1 had set before it raised, or
\* from the cache) and every cache entry has a sample rate when has_audio is true.
C11_AudioHasSampleRate ==
    /\ \A p \in DOMAIN cache : RateKnown(cache[p])
    /\ probe.last # <<>> => RateKnown(LastProbe.res)
    /\ \A p \in DOMAIN probe.returned : \A r \in probe.returned[p] : RateKnown(r)

\* method 1 raised in its loop after an audio stream without sample rate,
\* method 2 found no rate either, and the result carries 44100
C11_Witness ==
    /\ probe.last # <<>>
    /\ LastProbe.s = Json(<<AudioStream(FNone, FNone), BadEntry>>)
    /\ LastProbe.f.hz = NoneInt
    /\ LastProbe.ran = {"ffprobe", "ffmpeg"}
    /\ LastProbe.res.has_audio /\ LastProbe.res.sample_rate = 44100

\* C12: a cache entry, once written, stays as it is; of the probes of one path
\* exactly the first runs the prober tools, and all of them return the same
\* result, the cached one, whatever the tools would print later.
C12_CacheWriteOnce ==
    [][ /\ \A p \in DOMAIN cache : p \in DOMAIN cache' /\ cache'[p] = cache[p]
        /\ \A p \in DOMAIN probe'.asked :
              /\ probe'.ran[p] = 1
              /\ p \in DOMAIN cache'
              /\ probe'.returned[p] = {cache'[p]}
      ]_vars

\* a path was probed again after the file had changed: the tools would now
\* give another result than the cached one
C12_Witness ==
    \E p \in DOMAIN probe.asked :
        /\ probe.asked[p] >= 2 /\ probe.changes >= 1
        /\ probe.last # <<>> /\ LastProbe.path = p /\ LastProbe.ran = {}
        /\ RunProbers(media[p].s, media[p].f).res # cache[p]

\* method 1 gave nothing usable: tool missing, non-zero exit, no output,
\* unreadable output, or output that made the loop over the streams raise
NoUsableOutput(s) ==
    \/ s.kind \in {"missing", "fail", "empty", "garbage"}
    \/ s.kind = "json" /\ StreamLoop(s.streams, ProbeStart).raised

\* C13: when method 1 gives nothing usable method 2 is run, and when method 2
\* fails too the result is has_audio false with no sample rate and no bit rate.
C13_BothFailGiveNoAudio ==
    (probe.last # <<>> /\ LastProbe.ran # {} /\ NoUsableOutput(LastProbe.s)) =>
        /\ "ffmpeg" \in LastProbe.ran
        /\ LastProbe.f = NoInfo =>
              /\ ~LastProbe.res.has_audio
              /\ LastProbe.res.sample_rate = NoneInt
              /\ LastProbe.res.bit_rate = NoneInt

\* ------------------------------------------------------------- discovery
\* find_audio_files has returned
Found == probe.finds = 1

\* the regular files of the folder: direct children, or all with recursion
FilesInScope == {e \in tree.entries : e.is_file /\ (tree.recursive \/ e.path.dir = "S")}

\* the probe of the file reports audio
ReportsAudio(e) == RunProbers(media[e.path].s, media[e.path].f).res.has_audio

\* the file lies under a directory named ..._432Hz (the chosen folder or one
\* above it included)
UnderOutputDir(e) == tree.root_432 \/ e.path.dir = "S/Out_432Hz"

PartialDownload(e) == e.path.name[1].k = "~BitTorrentPartFile_"

InFlightTemp(e) == \E i \in DOMAIN e.path.name : e.path.name[i].k = ".__tmp432__"

\* the last token of the name before the extension
StemEnd(e) == e.path.name[Len(e.path.name) - (IF Len(e.path.name) > 1 THEN 1 ELSE 0)].k

\* the extension, in lower case, is on the denylist
Denylisted(e) ==
    /\ Len(e.path.name) > 1
    /\ Lower(ExtText(<<e.path.name[Len(e.path.name)]>>)) \in IGNORE_EXTS

\* what holds of find_audio_files whatever "bearing the output suffix" means
FindContract(suffixed) ==
    Found =>
        /\ probe.found =
              {e.path : e \in {x \in FilesInScope :
                    /\ ReportsAudio(x)
                    /\ ~UnderOutputDir(x) /\ ~PartialDownload(x) /\ ~InFlightTemp(x)
                    /\ x \notin suffixed /\ ~Denylisted(x)}}
        /\ \A e \in tree.entries :
              (\/ UnderOutputDir(e) \/ PartialDownload(e) \/ InFlightTemp(e)
               \/ StemEnd(e) = "_432" \/ Denylisted(e)) => e.path \notin probe.found
        /\ \A e \in tree.entries : Denylisted(e) => e.path \notin DOMAIN probe.ran
        /\ ( /\ Cardinality(tree.entries) = 5 /\ ~tree.root_432
             /\ Cardinality({e \in tree.entries : ReportsAudio(e) /\ ~Denylisted(e)}) = 3
             /\ \A e \in tree.entries : Denylisted(e) => ~ReportsAudio(e) )
            => probe.found = {e.path : e \in {x \in tree.entries : ReportsAudio(x)}}

\* the entries whose stem ends in _432
SuffixedAsStated == {e \in tree.entries : StemEnd(e) = "_432"}

\* the entries whose stem ends, in any letter case, in _432, _432hz or _432_hz
SuffixedAnyForm ==
    {e \in tree.entries : Lower(StemEnd(e)) \in {"_432", "_432hz", "_432_hz"}}

\* C14 as stated: find_audio_files returns exactly the regular files in scope
\* whose probe reports audio and that are not under a ..._432Hz directory, not
\* a partial download, not an in-flight temp file, not named <stem>_432 and not
\* denylisted; denylisted files are not probed; of 3 audio files and 2
\* non-media files it returns the 3 audio files.
C14_FindExactAsStated == FindContract(SuffixedAsStated)

\* C14 as amended: as stated, a file being left out as already converted when
\* its stem ends, in any letter case, in _432, _432hz or _432_hz.
C14_FindExact == FindContract(SuffixedAnyForm)

\* the whole folder was searched with recursion: the files a.mp3, B.FLAC,
\* g.wma, sub/c.mov and a.mp3.bak1 came back although e_432Hz.mp3 and the files
\* of the other excluded kinds hold audio too
C14_Witness ==
    /\ Found /\ tree.recursive /\ ~tree.root_432
    /\ Cardinality(tree.entries) = Len(FolderCatalog)
    /\ Cardinality(probe.found) = 5
    /\ FolderCatalog[7].path \in probe.found
    /\ media[FolderCatalog[6].path] = AudioMedia
    /\ FolderCatalog[6].path \notin probe.found

\* ------------------------------------------------------ destination paths
\* the worker is at the head of the loop with a file that has audio
AtFile == pc = "loop" /\ idx <= Len(files) /\ FileCatalog[files[idx]].has_audio

\* C15: for a file that has audio and whose destination directory exists or
\* could be created: with skip-existing on and the destination there with a
\* size above zero the engine is not invoked, no file changes and no error is
\* recorded or reported; with skip-existing off, or the destination missing or
\* empty, the engine is invoked.
C15_SkipExistingBypasses ==
    [][ (AtFile /\ (idx' = idx + 1 \/ pc' # "loop")) =>
          LET dst == DstFile(cfg, FileCatalog[files[idx]])
          IN  dst.dir \in dirs' =>
                IF cfg.keep /\ dst \in DOMAIN fs /\ fs[dst].k # "empty"
                THEN /\ pc' = "loop" /\ attempts' = <<>> /\ job' = NoJob
                     /\ fs' = fs
                     /\ errors_occurred' = errors_occurred
                     /\ queue' = Append(queue, BarEvent(idx))
                     /\ hist'.converted = hist.converted /\ hist'.failed = hist.failed
                ELSE /\ pc' = "hq" /\ job'.dst_file = dst /\ idx' = idx
        ]_vars

\* the first file was bypassed: its destination was there, the engine did not
\* run for it and no error was recorded
C15_Witness ==
    /\ pc = "loop" /\ idx = 2 /\ cfg.keep /\ ~errors_occurred
    /\ hist.visited = <<files[1]>> /\ hist.converted = {} /\ hist.failed = {}
    /\ DstFile(cfg, FileCatalog[files[1]]) \in DOMAIN fs
    /\ fs[DstFile(cfg, FileCatalog[files[1]])].k = "prev"

\* C16: with replace-original set, whatever same-folder is, the destination
\* of every file is <stem>.__tmp432__<source extension> beside the source, and
\* once conversion and swap have succeeded the converted content is at the
\* source's path.
C16_ReplaceInPlaceTemp ==
    /\ job # NoJob /\ cfg.replace_original =>
          /\ job.dst_file.dir = job.f_path.dir
          /\ Len(job.f_path.name) = 2
          /\ job.dst_file.name =
                <<job.f_path.name[1], T(".__tmp432__"), job.f_path.name[2]>>
    /\ SwapReturned =>
          job.f_path \in DOMAIN fs /\ fs[job.f_path] = Content("conv", idx)
    /\ pc = "done" /\ cfg.replace_original /\ ~errors_occurred =>
          \A j \in hist.converted :
              /\ FileCatalog[files[j]].path \in DOMAIN fs
              /\ fs[FileCatalog[files[j]].path] = Content("conv", j)

\* a run with both settings on ended without error after converting c.mov,
\* an audio-only file whose output extension would otherwise be .mp3
C16_Witness ==
    /\ pc = "done" /\ cfg.replace_original /\ cfg.same_folder /\ ~errors_occurred
    /\ \E j \in hist.converted :
          /\ FileCatalog[files[j]].path.name = <<T("c"), T(".mov")>>
          /\ fs[FileCatalog[files[j]].path] = Content("conv", j)

\* the files under the destination root
UnderOutputRoot == {p \in DOMAIN fs : p.dir \in {"O", "O/sub"}}

\* C17: without replace-original the destination is <stem>_432<ext_out>,
\* ext_out from _choose_output_ext: beside the source with same-folder set,
\* else under the destination root at the source's relative path (the bare
\* file name for a single chosen file); a folder batch of 3 files converted
\* without failure leaves exactly 3 such files under the root and no error.
C17_SuffixedDestination ==
    /\ job # NoJob /\ ~cfg.replace_original =>
          LET f == FileCatalog[files[idx]]
              ext_out == _choose_output_ext(f.path.name[2].k, f.has_real_video)
          IN  /\ job.dst_file.name = <<f.path.name[1], T("_432"), T(ext_out)>>
              /\ f.path.name = <<T("c"), T(".mov")>> => ext_out = ".mp3"
              /\ f.path.name = <<T("b"), T(".mp4")>> => ext_out = ".mp4"
              /\ cfg.same_folder => job.dst_file.dir = f.path.dir
              /\ ~cfg.same_folder /\ cfg.src_is_file => job.dst_file.dir = "O"
              /\ ~cfg.same_folder /\ ~cfg.src_is_file =>
                    /\ f.path.dir = "S" => job.dst_file.dir = "O"
                    /\ f.path.dir = "S/sub" => job.dst_file.dir = "O/sub"
    /\ ( /\ pc = "done" /\ ~cfg.replace_original /\ ~cfg.same_folder /\ ~cfg.src_is_file
         /\ Len(files) = 3 /\ hist.converted = 1..3 ) =>
          /\ Cardinality(UnderOutputRoot) = 3
          /\ \A p \in UnderOutputRoot :
                Len(p.name) = 3 /\ p.name[2] = T("_432") /\ fs[p].k = "conv"
          /\ ~errors_occurred

\* a folder batch of 3 files ended, all converted into the separate tree
C17_Witness ==
    /\ pc = "done" /\ ~cfg.replace_original /\ ~cfg.same_folder /\ ~cfg.src_is_file
    /\ Len(files) = 3 /\ hist.converted = 1..3
    /\ Cardinality(UnderOutputRoot) = 3 /\ ~errors_occurred

\* --------------------------------------------------------- codec policy
Range(seq) == {seq[i] : i \in DOMAIN seq}

BitrateValues(opts) ==
    {opts[i + 1] : i \in {j \in 1..(Len(opts) - 1) : opts[j] = T("-b:a")}}

HasBitrateToken(opts) == \E v \in BitrateValues(opts) : v.k = "k" /\ v.n > 0

\* a lossless encoder is selected
HasLosslessToken(opts) ==
    \E i \in 1..(Len(opts) - 1) :
        opts[i] = T("-c:a") /\ opts[i + 1] \in {T("flac"), T("pcm_s24le"), T("pcm_s16le")}

\* a variable-bitrate quality level is selected
HasQualityToken(opts) == \E i \in 1..(Len(opts) - 1) : opts[i] = T("-q:a")

\* _codec_for_ext was applied to a key of the tables, in any letter case
CodecCallOnKey == call.fn = "_codec_for_ext" /\ Lower(call.ext) \in DOMAIN HQ_CODEC

\* C19 as stated: for every key of the codec tables, in any letter case, the
\* option list of either tier is not empty and contains a bitrate token or a
\* lossless-mode token; the high-quality list of .mp3 contains -b:a and that
\* of .aac contains 512k.
C19_BitrateOrLossless ==
    CodecCallOnKey =>
        /\ call.opts # <<>>
        /\ HasBitrateToken(call.opts) \/ HasLosslessToken(call.opts)
        /\ Lower(call.ext) = ".mp3" /\ ~call.safe => T("-b:a") \in Range(call.opts)
        /\ Lower(call.ext) = ".aac" /\ ~call.safe => K(512) \in Range(call.opts)

\* C19 as amended: as stated, except that the lists of .ogg carry neither a
\* bitrate nor a lossless-mode token but a quality token (-q:a).
C19_BitrateQualityOrLossless ==
    CodecCallOnKey =>
        /\ call.opts # <<>>
        /\ IF Lower(call.ext) = ".ogg"
           THEN /\ HasQualityToken(call.opts)
                /\ ~HasBitrateToken(call.opts) /\ ~HasLosslessToken(call.opts)
           ELSE HasBitrateToken(call.opts) \/ HasLosslessToken(call.opts)
        /\ Lower(call.ext) = ".mp3" /\ ~call.safe => T("-b:a") \in Range(call.opts)
        /\ Lower(call.ext) = ".aac" /\ ~call.safe => K(512) \in Range(call.opts)

\* the function was applied to .OGG
C19_Witness ==
    CodecCallOnKey /\ call.ext = ".OGG" /\ T("libvorbis") \in Range(call.opts)

\* _adjust_bitrate_in_options was applied to a list with a numeric "-b:a"
\* target and a known original bit rate
AdjustCallWithTarget ==
    /\ call.fn = "_adjust_bitrate_in_options"
    /\ call.orig_bps # NoneInt
    /\ IndexOfBA(call.opts) > 0 /\ IndexOfBA(call.opts) < Len(call.opts)
    /\ TargetBps(call.opts[IndexOfBA(call.opts) + 1]) # -1

TargetOf(opts) == TargetBps(opts[IndexOfBA(opts) + 1])

\* C20 as stated: with target T and known original bit rate O, the adjusted
\* target is O when O < T and the list is unchanged otherwise; the adjusted
\* target is never higher than T and never differs from both T and O.
C20_TargetIsTOrO ==
    /\ AdjustCallWithTarget =>
        /\ Len(call.adjusted) = Len(call.opts)
        /\ TargetOf(call.adjusted) <= TargetOf(call.opts)
        /\ TargetOf(call.adjusted) \in {TargetOf(call.opts), call.orig_bps}
        /\ call.orig_bps < TargetOf(call.opts) => TargetOf(call.adjusted) = call.orig_bps
        /\ call.orig_bps >= TargetOf(call.opts) => call.adjusted = call.opts
    /\ call.fn = "_adjust_bitrate_in_options" /\ call.orig_bps = NoneInt =>
            call.adjusted = call.opts

\* C20 as amended: with target T and known original bit rate O < T the first
\* "-b:a" value is rewritten to O in whole kbit/s rounded down ("0k" below
\* 1000 bit/s): never above O, less than 1000 bit/s below it; with O unknown
\* or O >= T the list is unchanged; 192000 against 320k gives 192k, not 320k.
C20_LoweredToWholeKilobits ==
    /\ AdjustCallWithTarget =>
        /\ Len(call.adjusted) = Len(call.opts)
        /\ TargetOf(call.adjusted) <= TargetOf(call.opts)
        /\ call.orig_bps < TargetOf(call.opts) =>
              /\ call.adjusted =
                    [call.opts EXCEPT ![IndexOfBA(call.opts) + 1] = K(call.orig_bps \div 1000)]
              /\ TargetOf(call.adjusted) <= call.orig_bps
              /\ call.orig_bps - TargetOf(call.adjusted) < 1000
        /\ call.orig_bps >= TargetOf(call.opts) => call.adjusted = call.opts
        /\ call.orig_bps = 192000 /\ TargetOf(call.opts) = 320000 =>
              K(192) \in Range(call.adjusted) /\ K(320) \notin Range(call.adjusted)
    /\ call.fn = "_adjust_bitrate_in_options" /\ ~AdjustCallWithTarget =>
            call.adjusted = call.opts

\* an original bit rate of 128500 bit/s lowered a 320k target to 128k
C20_Witness ==
    AdjustCallWithTarget /\ call.orig_bps = 128500 /\ TargetOf(call.opts) = 320000
        /\ TargetOf(call.adjusted) = 128000

\* ------------------------------------------------- claims on the commands
\* convert_to_432 built its chain and its command lists
Built == call.fn = "convert_to_432"

\* the values given to a codec option in a command
OptionValues(cmd, option) ==
    {cmd[i + 1] : i \in {j \in 1..(Len(cmd) - 1) : cmd[j] = T(option)}}

\* no video filter, and every codec option for video or for all streams is copy
VideoCopied(cmd) ==
    /\ OptionValues(cmd, "-c:v") \cup OptionValues(cmd, "-c") \subseteq {T("copy")}
    /\ Range(cmd) \cap {T("-vf"), T("-filter:v"), T("-vcodec"), T("-scodec")} = {}

SubtitlesCopied(cmd) == OptionValues(cmd, "-c:s") \subseteq {T("copy")}

\* the audio goes through the chain once and is given an encoder
AudioReencoded(cmd) ==
    /\ Cardinality({i \in 1..(Len(cmd) - 1) :
            cmd[i] \in {T("-filter:a"), T("-af")} /\ cmd[i + 1] = T("CHAIN")}) = 1
    /\ OptionValues(cmd, "-c:a") # {}
    /\ T("copy") \notin OptionValues(cmd, "-c:a")

DeclaredRate(c) == WideMul(Wide(c.asetrate.rate), c.asetrate.times)

\* Played at the declared rate the sound is declared/rate times as high and
\* rate/declared times as long; atempo divides the length by its factor and
\* leaves the pitch; aresample changes neither. So the net pitch factor is
\* declared/rate and the net duration factor is rate/(declared * atempo).

\* net pitch factor = 432/440, within tol/10^16 of it
PitchWithin(c, tol) ==
    LET got == WideMul(DeclaredRate(c), Wide(440))
        want == WideMul(WideMul(Wide(c.asetrate.rate), Wide(432)), WideScale)
        slack == WideMul(WideMul(Wide(c.asetrate.rate), Wide(440)), Wide(tol))
    IN  WideLeq(got, WideAdd(want, slack)) /\ WideLeq(want, WideAdd(got, slack))

\* net duration factor = 1, within tol/10^16 of it
DurationWithin(c, tol) ==
    LET got == WideMul(DeclaredRate(c), c.atempo)
        want == WideMul(WideMul(Wide(c.asetrate.rate), WideScale), WideScale)
        slack == WideMul(WideMul(Wide(c.asetrate.rate), WideScale), Wide(tol))
    IN  WideLeq(got, WideAdd(want, slack)) /\ WideLeq(want, WideAdd(got, slack))

\* the target rate is the argument of aresample and of nothing else
TargetOnlyResamples ==
    /\ call.chain.aresample = call.target_sr
    /\ \A t \in TargetRates :
          /\ Chain(call.original_sr, t).asetrate = call.chain.asetrate
          /\ Chain(call.original_sr, t).atempo = call.chain.atempo

\* C22 as stated: for every original sample rate the chain's net duration
\* factor is exactly 1 and its net pitch factor exactly 432/440, and the
\* target sample rate enters neither.
C22_ExactFactors ==
    Built =>
        /\ DurationWithin(call.chain, 0)
        /\ PitchWithin(call.chain, 0)
        /\ TargetOnlyResamples

\* C22 as amended: the two factors of the chain are the decimal texts of the
\* floats 432/440 and 1/(432/440); the net duration factor is 1 and the net
\* pitch factor 432/440 to within 10^-16 (neither exactly), for every
\* original sample rate, and the target sample rate enters neither.
C22_FactorsWithinRounding ==
    Built =>
        /\ DurationWithin(call.chain, 1) /\ ~DurationWithin(call.chain, 0)
        /\ PitchWithin(call.chain, 1) /\ ~PitchWithin(call.chain, 0)
        /\ TargetOnlyResamples

\* the chain was built for 44100 Hz material resampled to 48000 Hz
C22_Witness ==
    /\ Built
    /\ call.original_sr = 44100 /\ call.target_sr = 48000
    /\ call.chain.asetrate = [rate |-> 44100, times |-> RatioText]
    /\ call.chain.atempo = InverseRatioText

\* --------------------------------------------------- claims on the worker
\* what the worker thread reads and writes
threadVars == <<cfg, files, fs, dirs, pc, idx, job, attempts, exc, swap, errors_occurred>>

\* C23: at most one worker runs at any time: while a worker runs no thread is
\* started, whatever is done with the Start button; a step that is not the
\* worker's own leaves the worker, its batch and the files as they are (it is
\* never cancelled), and the running worker always has a next step to take.
C23_OneWorkerUndisturbed ==
    [][ /\ WorkerRunning => ctl'.started = ctl.started
        /\ WorkerRunning /\ ~WorkerNext => UNCHANGED threadVars
        /\ WorkerRunning => ENABLED WorkerNext
        /\ ~ctl'.overlapped ]_vars

\* Start was pressed while the first worker ran; the worker ran to its end,
\* and a second one was started only then
C23_Witness ==
    /\ ctl.dropped
    /\ ctl.started = 2 /\ ~ctl.overlapped
    /\ pc = "done" /\ Len(files) = 1 /\ hist.visited = files

\* ----------------------------------------------------- claims on startup
\* _resolve_ffmpeg raised SystemExit: a tool is not resolved
Unresolved == boot.tools = "SystemExit"

\* no controller, no worker thread, nothing enumerated, probed or converted
NoBatchWork ==
    /\ ~boot.controller
    /\ ctl.started = 0 /\ pc = "off"
    /\ probe = NoProbe /\ attempts = <<>> /\ hist = NoHist

\* C24 as stated: when a tool is not resolved at startup the run ends with a
\* failure exit, and no controller is created and no batch work done; batch
\* work never starts with an unresolved tool.
C24_UnresolvedAborts ==
    /\ Unresolved =>
        /\ NoBatchWork
        /\ boot.step \in {"failed", "tests", "exit"}
        /\ boot.step = "exit" => boot.exit = 1
    /\ boot.controller \/ ctl.started > 0 => boot.tools = "ok"

\* C24 as amended: the same for a run without --test; in a self-test run the
\* failure is logged, the tests run and the exit code is that of the tests,
\* and in that run too no controller is created and no batch work done.
C24_UnresolvedAbortsOutsideTests ==
    /\ Unresolved =>
        /\ NoBatchWork
        /\ boot.step \in {"failed", "tests", "exit"}
        /\ boot.step = "exit" /\ ~boot.test => boot.exit = 1
        /\ boot.step = "exit" /\ boot.test => boot.exit \in {0, 1}
    /\ boot.test => ~boot.controller
    /\ boot.controller \/ ctl.started > 0 => boot.tools = "ok"

\* a run without --test ended with exit code 1 on a machine where ffmpeg alone
\* is on the search path
C24_Witness ==
    /\ Unresolved /\ ~boot.test
    /\ boot.step = "exit" /\ boot.exit = 1
    /\ boot.has[PathPlace] = "ffmpeg" /\ boot.from = NoPlace

\* the places of one kind under the search roots, in the order of the roots
UnderRoots(kind) == [i \in 1..Len(SearchRoots(boot)) |-> <<kind, i>>]

ArgumentGiven == IF ~boot.test /\ boot.has[ArgPlace] # "absent" THEN <<ArgPlace>> ELSE <<>>

OnWindows == IF boot.nt THEN <<DownloadPlace>> ELSE <<>>

\* the order as stated: argument, search path, vendored directory, the scans
\* beside and below the roots, and the download last
OrderAsStated ==
    ArgumentGiven \o <<PathPlace>> \o UnderRoots("vendors")
        \o UnderRoots("root") \o UnderRoots("sub") \o OnWindows

\* the order with the download right after the vendored directory
OrderDownloadSecond ==
    ArgumentGiven \o <<PathPlace>> \o UnderRoots("vendors") \o OnWindows
        \o UnderRoots("root") \o UnderRoots("sub")

\* the place gave both executables
Yields(place) ==
    IF place = DownloadPlace THEN boot.downloaded ELSE boot.has[place] = "both"

\* the resolution has gone through its stages
ResolutionOver == boot.step \notin {"off", "main", "argument", "path", "vendors",
                                    "download", "root", "sub"}

\* the places were consulted in the given order, none left out, up to the
\* first that gave both executables, and none after it
ConsultedInOrder(order) ==
    /\ Len(boot.consulted) <= Len(order)
    /\ boot.consulted = SubSeq(order, 1, Len(boot.consulted))
    /\ \A i \in 1..(Len(boot.consulted) - 1) : ~Yields(boot.consulted[i])
    /\ IF boot.from = NoPlace
       THEN /\ \A i \in 1..Len(boot.consulted) : ~Yields(boot.consulted[i])
            /\ ResolutionOver => boot.consulted = order
       ELSE /\ boot.consulted # <<>>
            /\ boot.from = boot.consulted[Len(boot.consulted)]
            /\ Yields(boot.from)

\* C28 as stated: the sources are consulted in the order argument, search
\* path, vendored directory, subdirectory scan and only last the download;
\* the first that yields both executables wins and no later one is consulted.
C28_DownloadLast == boot.step # "off" => ConsultedInOrder(OrderAsStated)

\* C28 as amended: the order is argument, search path, vendored directory,
\* on Windows the download into the vendored directory, then beside the
\* script or executable, then the ffmpeg* subdirectories; the first that
\* yields both executables wins and no later one is consulted.
C28_DownloadBeforeScans == boot.step # "off" => ConsultedInOrder(OrderDownloadSecond)

\* on Windows, frozen: everything was consulted, the download failed, and the
\* tools were found in an ffmpeg* subdirectory beside the executable
C28_Witness ==
    /\ ResolutionOver /\ boot.nt /\ boot.frozen
    /\ boot.from = <<"sub", 2>>
    /\ Len(boot.consulted) = 8 /\ boot.consulted[4] = DownloadPlace

\* ------------------------------------------- claims on failed conversions
\* the files of the batch whose conversion failed on every attempt and whose
\* iteration is over
FailedAndHandled == {j \in hist.failed : j < idx \/ pc = "done"}

\* C25: after a conversion that failed on every attempt the driver removes
\* the partially written destination, in every output mode: a totally failed
\* file leaves no partially written destination file behind.
C25_FailedLeavesNoDestination ==
    \A j \in FailedAndHandled :
        LET dst == DstFile(cfg, FileCatalog[files[j]])
        IN  ~(Exists(fs, dst) /\ fs[dst].k = "part")

\* ------------------------------------------------ claims on backup names
\* the backup names of the file in hand that existed when the swap was called
Collisions == {i \in 0..BackupLimit : Exists(swap.pre, BackupName(job.f_path, i))}

BackupsExhausted == exc # NoExc /\ exc.origin = "too many backups"

\* the swap chose a backup name and has not finished
BackupChosen == pc \in {"swap_s1", "swap_s2", "swap_rb"}

\* the chosen name is <name>.bak or <name>.bak<i>, did not exist, and every name
\* before it in the order .bak, .bak1, .bak2, ... did
FirstFreeName ==
    BackupChosen =>
        \E i \in 0..(BackupLimit - 1) :
            /\ swap.backup = BackupName(job.f_path, i)
            /\ ~Exists(swap.pre, swap.backup)
            /\ \A j \in 0..(i - 1) : Exists(swap.pre, BackupName(job.f_path, j))

\* the error of exhausted backup names ends this file only: the driver reports
\* it and goes on to the next file of the same batch
ExhaustedFileOnly ==
    pc = "except_gen" /\ BackupsExhausted =>
        /\ idx' = idx + 1 /\ pc' = "loop" /\ files' = files
        /\ errors_occurred' /\ exc' = NoExc

\* C26 as stated: the first free name in the order .bak, .bak1, .bak2, ... is
\* returned, and the function raises only when more than 1000 backup names
\* collide.
C26_RaisesAboveThousand ==
    /\ FirstFreeName
    /\ (BackupsExhausted => Cardinality(Collisions) > BackupLimit)

\* C26 (amended): the first free name in the order .bak, .bak1, ... .bak999 is
\* returned; the function raises exactly when all of these 1000 names exist (a
\* thousand collisions, not more); the error ends that file only, and the batch
\* goes on with the next file.
C26_RaisesAtThousand ==
    [][/\ FirstFreeName'
       /\ (pc' = "swap_s1" =>
                \E i \in 0..(BackupLimit - 1) : ~Exists(fs, BackupName(job.f_path, i)))
       /\ (BackupsExhausted' =>
                \A i \in 0..(BackupLimit - 1) : Exists(swap'.pre, BackupName(job.f_path, i)))
       /\ ExhaustedFileOnly]_vars

\* all thousand names were taken beside the first file, which failed without
\* a file being touched, and the swap of the second file of the batch chose a name
C26_Witness ==
    /\ idx = 2 /\ Len(files) = 2 /\ BackupChosen
    /\ Exists(fs, FileCatalog[files[1]].path)
    /\ \A i \in 0..(BackupLimit - 1) : Exists(fs, BackupName(FileCatalog[files[1]].path, i))

\* ------------------------------------------------ claims on a raising swap
\* the backup paths of the original that this call brought into being
BackupsOfThisCall == {b \in DOMAIN fs \ DOMAIN swap.pre : IsBackupOf(b, Original)}

\* C30: whenever the swap raises (backup names exhausted, original-to-backup
\* rename failed, or candidate-to-original rename failed) and the rollback
\* rename, where one was needed, succeeded, the filesystem is as it was before
\* the call: the original path holds its original content, no backup created by
\* this call remains, and the candidate is still at its own path.
C30_RaisedSwapRestoresAll ==
    SwapRaised /\ swap.rollback # "failed" =>
        /\ fs = swap.pre
        /\ Exists(fs, Original) /\ fs[Original] = swap.pre[Original]
        /\ BackupsOfThisCall = {}
        /\ Exists(fs, Candidate) /\ fs[Candidate] = swap.pre[Candidate]

\* beside an older <name>.bak the swap moved the original to <name>.bak1, its
\* second rename failed, and the rollback rename succeeded
C30_Witness ==
    /\ SwapRaised /\ swap.trigger = "candidate->original" /\ swap.rollback = "done"
    /\ Exists(swap.pre, BackupName(Original, 0))
    /\ swap.backup = BackupName(Original, 1)
    /\ Exists(fs, Candidate)

\* --------------------------------------------- claims on the diagnostics
\* what a line is in the transcoder's output: the version banner, the build
\* and configuration lines, the listing of the compiled libraries, a known
\* benign warning, or a line that reports something
LineKind(ln) ==
    CASE ln = L_BANNER -> "version banner"
      [] ln \in {L_BUILT, L_BUILT_0, L_CONFIGURATION, L_CONFIGURATION_0, L_CONFIG}
            -> "build configuration"
      [] ln \in {L_LIBAVUTIL, L_LIBAVUTIL_0, L_LIBSWSCALE, L_LIBSWSCALE_0}
            -> "library listing"
      [] ln \in {L_BOM, L_COMMENT} -> "benign warning"
      [] OTHER -> "report"

RECURSIVE ReportOnly(_)
ReportOnly(lines) ==
    IF lines = <<>> THEN <<>>
    ELSE IF LineKind(Head(lines)) = "report" THEN <<Head(lines)>> \o ReportOnly(Tail(lines))
    ELSE ReportOnly(Tail(lines))

LastOf(lines, k) ==
    SubSeq(lines, IF Len(lines) > k THEN Len(lines) - k + 1 ELSE 1, Len(lines))

\* C27: _clean_ffmpeg_err returns the last 15 (or fewer) lines of the raw
\* diagnostic that are no version-banner, build-configuration, library-listing
\* or known-benign-warning line, in their original order, and the fixed
\* placeholder when no such line remains.
C27_CleanedIsReportTail ==
    call.fn = "_clean_ffmpeg_err" =>
        LET kept == ReportOnly(call.hq_stderr)
        IN  call.cleaned = IF kept = <<>> THEN <<"(no ffmpeg stderr captured)">>
                           ELSE LastOf(kept, TailLines)

\* ------------------------------------------- claims on dropped payloads
\* t is str without the blanks and line breaks around it
IsStripped(t, str) ==
    \/ t = <<>> /\ \A i \in 1..Len(str) : IsSpace(str[i])
    \/ \E i, j \in 1..Len(str) :
        /\ i <= j /\ t = SubSeq(str, i, j)
        /\ ~IsSpace(str[i]) /\ ~IsSpace(str[j])
        /\ \A k \in 1..Len(str) : (k < i \/ k > j) => IsSpace(str[k])

StrippedOf(str) ==
    CHOOSE t \in {SubSeq(str, i, j) : i \in 1..(Len(str) + 1), j \in 0..Len(str)} :
        IsStripped(t, str)

Enclosed(str) == Len(str) >= 2 /\ str[1] = "{" /\ str[Len(str)] = "}"

\* the part of str before its first line break
UpToBreak(str) ==
    LET breaks == {i \in 1..Len(str) : str[i] = "\n"}
    IN  IF breaks = {} THEN str
        ELSE SubSeq(str, 1, (CHOOSE i \in breaks : \A k \in breaks : i <= k) - 1)

\* the path a payload names: what is left of its first line once the blanks
\* around it and one pair of enclosing braces are taken off
NamedPath(data) ==
    LET outer == StrippedOf(data)
        inner == IF Enclosed(outer)
                 THEN StrippedOf(SubSeq(outer, 2, Len(outer) - 1)) ELSE outer
    IN  StrippedOf(UpToBreak(inner))

\* C29: _parse_drop_data returns the path named by the payload after the
\* surrounding whitespace and one pair of enclosing braces are stripped and the
\* first line is taken, when that path exists; it returns None when the
\* payload is empty (nothing is left of it) or the path does not exist.
C29_DropNamesExistingPath ==
    call.fn = "_parse_drop_data" =>
        LET named == NamedPath(call.data)
        IN  IF named # <<>> /\ named \in ExistingNames
            THEN call.dropped = [found |-> TRUE, path |-> named]
            ELSE call.dropped = NoPath

\* a braced payload of two lines whose first line names an existing path
C29_Witness ==
    /\ call.fn = "_parse_drop_data"
    /\ call.data = <<"{", "a", "\n", "b", "}">>
    /\ call.dropped = [found |-> TRUE, path |-> <<"a">>]

\* ------------------------------------------------ claims on the safe rung
\* where the filter chain stands in a command: the mapping and stream-copy
\* arguments of the base command end there
ChainAt(cmd) == CHOOSE i \in 1..Len(cmd) : cmd[i] = T("CHAIN")

\* the options of a command after the base command, without the destination
TierOptions(cmd) == SubSeq(cmd, ChainAt(cmd) + 1, Len(cmd) - 1)

StructuredAnswer == probe.n > 0 /\ probe.last[1].ran = {"ffprobe"}

\* what a field of a stream gives: its number when it is digits
FieldOr(v, default) == IF v.k = "digits" THEN v.n ELSE default

\* the result of the structured probe says of the listed streams: a picture
\* when some video stream carries the flag, real video when some video stream
\* does not, and rate and bitrate as the first audio stream has them
StreamsClassified ==
    StructuredAnswer =>
        LET streams == probe.last[1].s.streams
            res == probe.last[1].res
            videos == {i \in DOMAIN streams : streams[i].t = "video"}
            audios == {i \in DOMAIN streams : streams[i].t = "audio"}
        IN  /\ res.has_attached_pic <=> \E i \in videos : streams[i].attached = 1
            /\ res.has_real_video <=> \E i \in videos : streams[i].attached # 1
            /\ res.has_audio <=> audios # {}
            /\ audios = {} => res.sample_rate = NoneInt /\ res.bit_rate = NoneInt
            /\ audios # {} =>
                LET first == streams[CHOOSE i \in audios : \A k \in audios : i <= k]
                IN  /\ res.sample_rate = FieldOr(first.sr, DefaultSampleRate)
                    /\ res.bit_rate = FieldOr(first.br, NoneInt)

\* the command selects the video streams of the source, cover art among them
MapsVideoStreams(cmd) == OptionValues(cmd, "-map") \cap {T("0:v?"), T("0")} # {}

CoverArtJob ==
    ~call.has_real_video /\ call.has_attached_pic /\ call.ext \in {".mp3", ".m4a", ".flac"}

\* C32 as stated: the structured probe classifies the streams as above, and a
\* command of the engine maps the cover-art stream only for a job without real
\* video, with an attached picture, going to .mp3, .m4a or .flac, and as a copy.
C32_CoverArtOnlyWithoutVideo ==
    /\ StreamsClassified
    /\ Built =>
        \A r \in 1..Len(call.cmds) :
            LET cmd == call.cmds[r].cmd
            IN  /\ call.has_attached_pic /\ MapsVideoStreams(cmd) => CoverArtJob
                /\ VideoCopied(cmd)

\* C32 as amended: the structured probe classifies the streams as above; in a
\* job that is not real video going to a video container the video stream is
\* mapped exactly when the job has no real video, has an attached picture and
\* goes to .mp3, .m4a or .flac; in a job with real video going to a video
\* container every video stream is mapped, an attached picture with them; a
\* mapped video stream is always copied.
C32_CoverArtOrEveryVideoStream ==
    /\ StreamsClassified
    /\ Built =>
        \A r \in 1..Len(call.cmds) :
            LET cmd == call.cmds[r].cmd
            IN  /\ MapsVideoStreams(cmd) <=>
                        \/ call.has_real_video /\ call.ext \in VIDEO_CONTAINER_EXTS
                        \/ CoverArtJob
                /\ VideoCopied(cmd)

\* the probe found a picture and no real video beside two audio streams of
\* which the first names no rate, and the job built from it maps the cover art
C32_Witness ==
    /\ StructuredAnswer
    /\ Len(probe.last[1].s.streams) = 4
    /\ probe.last[1].res.sample_rate = DefaultSampleRate
    /\ Built /\ CoverArtJob /\ MapsVideoStreams(call.cmds[1].cmd)

\* --------------------------------------------- claims on the temp file
\* the files of the batch whose processing ended after a conversion was tried
Processed == {j \in hist.converted \cup hist.failed : j < idx \/ pc = "done"}

TempOf(j) == DstFile(cfg, FileCatalog[files[j]])

\* C33 as stated: in replace-in-place mode, once the processing of a file has
\* ended (swap done, conversion failed on every attempt, or swap failed), no
\* file with its in-flight temp name remains beside the source.
C33_NoTempSurvives ==
    cfg.replace_original => \A j \in Processed : ~Exists(fs, TempOf(j))

\* C33 as amended: the same, unless the last attempt to delete that temp file
\* failed; such a failure is swallowed, and the temp file stays.
C33_NoTempUnlessUnlinkFailed ==
    cfg.replace_original =>
        \A j \in Processed : j \notin hist.undeleted => ~Exists(fs, TempOf(j))

\* the run is over: the first file failed on every attempt after writing part
\* of its temp file, the second file's swap failed, and neither temp is left
C33_Witness ==
    /\ cfg.replace_original /\ pc = "done" /\ Len(files) >= 2
    /\ 1 \in hist.failed /\ 2 \in hist.swapped /\ errors_occurred
    /\ Exists(fs, FileCatalog[files[2]].path)
    /\ fs[FileCatalog[files[2]].path].k = "orig"
    /\ hist.undeleted = {}
    /\ \A j \in 1..2 : ~Exists(fs, TempOf(j))

\* ------------------------------------------------ claims on the last poll
\* the poll that found the thread ended has run
PollOver == ~polling

CompletionShown == \E i \in 1..Len(shown) : shown[i] = "info: conversion complete"

\* C34: the poll that finds the worker ended stops polling, and for a batch of
\* N > 0 files every progress update the worker posted was applied before it:
\* it sees the bar at N and reports completion, with no progress callback left
\* in the queue behind it.
C34_PollAfterAllProgress ==
    PollOver /\ Len(files) > 0 =>
        /\ pc = "done"
        /\ CompletionShown
        /\ \A i \in 1..Len(queue) : queue[i].t # "bar"

\* ------------------------------------------------ claims on destinations
DestinationsComputed == call.fn = "dst_file"

\* C35: in same-folder and separate-output-tree mode two distinct source files
\* of one batch never get the same computed destination path.
C35_DistinctDestinations ==
    DestinationsComputed /\ call.mode # "replace" =>
        call.dsts[1] # call.dsts[2]

\* --------------------------------------------- claims on the source files
SourcePath(j) == FileCatalog[files[j]].path

\* C36: in same-folder and separate-output-tree mode no computed destination
\* is the path of a source file of the batch, and at every moment of a run
\* every source file is where it was with the content it had: the driver
\* renames, deletes and overwrites none.
C36_SourcesUntouched ==
    ~cfg.replace_original =>
        /\ \A i, j \in DOMAIN files : DstFile(cfg, FileCatalog[files[i]]) # SourcePath(j)
        /\ \A j \in DOMAIN files :
                Exists(fs, SourcePath(j)) /\ fs[SourcePath(j)] = Content("orig", j)

\* a same-folder run is over in which one file was converted beside its
\* source and another failed after writing part of its output
C36_Witness ==
    /\ ~cfg.replace_original /\ cfg.same_folder /\ pc = "done"
    /\ hist.converted # {} /\ hist.failed # {}
    /\ \E j \in hist.failed :
            Exists(fs, DstFile(cfg, FileCatalog[files[j]]))
            /\ fs[DstFile(cfg, FileCatalog[files[j]])].k = "part"
    /\ \A j \in DOMAIN files : fs[SourcePath(j)] = Content("orig", j)

\* ---------------------------------------------- claims on found backups
Enumerated == probe.finds = 1

\* C37: no backup file of the swap (<name>.bak, <name>.bak1, <name>.bak2, ...)
\* is returned by find_audio_files.
C37_NoBackupFound ==
    Enumerated => \A p \in probe.found : ~IsBackup(p)

\* the last call lowered a bit rate that one of the tables' own lists holds
LoweredTableList ==
    /\ call.fn = "convert_to_432 on tables"
    /\ call.orig_bps # NoneInt
    /\ CodecObject(StaticTables, call.ext, call.safe).kind = "table"
    /\ call.adjusted # _codec_for_ext(call.ext, call.safe)

\* C38: no sequence of convert_to_432 calls changes the codec tables: after
\* any number of calls _codec_for_ext returns for every extension and tier the
\* list it returned before the first one.
C38_TablesUnchanged ==
    call.fn = "convert_to_432 on tables" =>
        /\ call.tables = StaticTables
        /\ \A e \in PolicyExts, s \in BOOLEAN :
                Deref(call.tables, CodecObject(call.tables, e, s)) = _codec_for_ext(e, s)

C38_Witness ==
    LoweredTableList /\ call.runs >= 2

==============================================================================
